---- MODULE Spec2Model ----
(***************************************************************************)
(* prompt-security: the live configuration manager (internal/config), the  *)
(* durable store behind it (internal/db, config.Load/config.Save) and the  *)
(* compiled-pattern cache (internal/patterns), as a state machine.         *)
(*                                                                         *)
(* Processes: two administrative callers (the HTTP handlers of             *)
(* internal/web) that run Update, Reload and OnChange, and one reader (the *)
(* monitor loop) that runs Get and then resolves a category's matcher.     *)
(***************************************************************************)
EXTENDS Integers, Sequences, FiniteSets, TLC

(***************************************************************************)
(* Bounds of the exploration.                                              *)
(***************************************************************************)
\* Snapshots installed by Update/Reload, counting the calls in progress.
MaxOps == 2
\* OnChange registrations in one behaviour.
MaxObservers == 2
\* How many RuleSets of RuleSetPool the administrators submit.
MaxRuleSets == 2
\* How many categories of CategoryOrder the reader resolves.
MaxCategories == 1
\* The longest text built freely from InputItems.
MaxTextLen == 2
\* Calls of PatternCache.Clear in one behaviour.
MaxClears == 1
\* The longest text written character by character.
MaxChars == 3

Admins == {"a1", "a2"}
Reader == "m"
Procs == Admins \cup {Reader}
Observers == {"o1", "o2", "o3"}
NoProc == "none"

(***************************************************************************)
(* Pattern texts.  Compilation is regexp.Compile: it succeeds on the       *)
(* syntactically valid texts and fails on "[invalid" (an unclosed class).  *)
(***************************************************************************)
PatternA == "[a-zA-Z0-9]+@test\\.com"
PatternB == "custom@email"
BadPattern == "[invalid"
ValidPatternTexts == {PatternA, PatternB}

DefaultEmailPatternStr == "[a-zA-Z0-9._%+-]+@[a-zA-Z0-9.-]+\\.[a-zA-Z]{2,}"
DefaultPhonePatternStr == "(\\+\\d{1,3}[\\s-]?)?\\(?\\d{3}\\)?[\\s.-]?\\d{3}[\\s.-]?\\d{4}"
DefaultCreditCardPatternStr == "\\b(?:\\d{4}[- ]?){3}\\d{4}\\b"
DefaultSSNPatternStr == "\\b\\d{3}-\\d{2}-\\d{4}\\b"
DefaultIPV4PatternStr == "\\b((25[0-5]|2[0-4][0-9]|[01]?[0-9][0-9]?)\\.){3}(25[0-5]|2[0-4][0-9]|[01]?[0-9][0-9]?)\\b"

\* A compiled matcher: the text it was compiled from.
Matcher(text) == [src |-> text]
\* regexp.Compile: <<matcher, err>>.
Compile(text) ==
    IF text \in ValidPatternTexts
    THEN [m |-> Matcher(text), err |-> FALSE]
    ELSE [m |-> Matcher(""), err |-> TRUE]

\* The cache keys of the five pattern getters, in the order of the getters.
CategoryOrder == <<"email", "phone", "creditCard", "ssn", "ipv4">>
ResolvedCategories ==
    {CategoryOrder[i] : i \in 1..(IF MaxCategories < Len(CategoryOrder)
                                  THEN MaxCategories ELSE Len(CategoryOrder))}

defaultPattern(cat) ==
    CASE cat = "email" -> Matcher(DefaultEmailPatternStr)
      [] cat = "phone" -> Matcher(DefaultPhonePatternStr)
      [] cat = "creditCard" -> Matcher(DefaultCreditCardPatternStr)
      [] cat = "ssn" -> Matcher(DefaultSSNPatternStr)
      [] cat = "ipv4" -> Matcher(DefaultIPV4PatternStr)

(***************************************************************************)
(* Config (the RuleSet).                                                   *)
(***************************************************************************)
DefaultConfig ==
    [DetectEmails |-> TRUE,
     DetectPhones |-> TRUE,
     DetectCreditCards |-> TRUE,
     DetectSSNs |-> TRUE,
     DetectIPV4 |-> TRUE,
     StringMatchPatterns |-> << >>,
     CustomEmailPattern |-> "",
     CustomPhonePattern |-> "",
     CustomCreditCardPattern |-> "",
     CustomSSNPattern |-> "",
     CustomIPV4Pattern |-> "",
     EmailReplacement |-> "security@example.com",
     PhoneReplacement |-> "+1-555-123-4567",
     CreditCardReplacement |-> "XXXX-XXXX-XXXX-XXXX",
     SSNReplacement |-> "XXX-XX-XXXX",
     IPV4Replacement |-> "0.0.0.0",
     MonitoringInterval |-> 500,
     NotifyOnFilter |-> TRUE]

CompanyRule ==
    [Name |-> "company_name", Pattern |-> "Acme Corporation",
     Enabled |-> TRUE, Replacement |-> "[COMPANY NAME]"]

\* The RuleSets the administrative surface submits.  Any two of them, and
\* each of them and DefaultConfig, differ in both halves of the struct.
RuleSetPool ==
    << [DefaultConfig EXCEPT !.CustomEmailPattern = PatternA,
                             !.EmailReplacement = "[EMAIL]"],
       [DefaultConfig EXCEPT !.CustomEmailPattern = PatternB,
                             !.StringMatchPatterns = <<CompanyRule>>,
                             !.MonitoringInterval = 250],
       [DefaultConfig EXCEPT !.CustomEmailPattern = BadPattern,
                             !.DetectPhones = FALSE,
                             !.NotifyOnFilter = FALSE],
       [DefaultConfig EXCEPT !.DetectEmails = FALSE,
                             !.CustomPhonePattern = PatternA,
                             !.PhoneReplacement = "[PHONE]"] >>
SubmittedRuleSets ==
    {RuleSetPool[i] : i \in 1..(IF MaxRuleSets < Len(RuleSetPool)
                                THEN MaxRuleSets ELSE Len(RuleSetPool))}

\* The fields a struct assignment has copied when it is half done.
FirstHalf ==
    {"DetectEmails", "DetectPhones", "DetectCreditCards", "DetectSSNs",
     "DetectIPV4", "StringMatchPatterns", "CustomEmailPattern",
     "CustomPhonePattern", "CustomCreditCardPattern", "CustomSSNPattern",
     "CustomIPV4Pattern"}
HalfCopied(old, new) ==
    [f \in DOMAIN new |-> IF f \in FirstHalf THEN new[f] ELSE old[f]]

CustomPattern(c, cat) ==
    CASE cat = "email" -> c.CustomEmailPattern
      [] cat = "phone" -> c.CustomPhonePattern
      [] cat = "creditCard" -> c.CustomCreditCardPattern
      [] cat = "ssn" -> c.CustomSSNPattern
      [] cat = "ipv4" -> c.CustomIPV4Pattern

(***************************************************************************)
(* The durable store: absent, corrupt, or holding the configuration row    *)
(* and the table of string match patterns.                                 *)
(***************************************************************************)
\* The ConfigModel row of a configuration: every field but the patterns.
ConfigModel(c) == [f \in DOMAIN c \ {"StringMatchPatterns"} |-> c[f]]

\* The configuration a store holds: the row and the table's patterns.
Stored(s) ==
    [f \in DOMAIN s.row \cup {"StringMatchPatterns"} |->
       IF f = "StringMatchPatterns" THEN s.table ELSE s.row[f]]

AbsentStore == [state |-> "absent", row |-> ConfigModel(DefaultConfig), table |-> << >>]
CorruptStore == [state |-> "corrupt", row |-> ConfigModel(DefaultConfig), table |-> << >>]

\* config.Save: the whole configuration is written.
Save(s, c) ==
    [state |-> "ok", row |-> ConfigModel(c), table |-> c.StringMatchPatterns]

\* db.SaveConfig: the configuration row is written; the rows of the
\* string_match_patterns table are not touched.
SaveConfig(s, c) == [state |-> "ok", row |-> ConfigModel(c), table |-> s.table]

\* config.Load: the outcomes of one call, each the configuration and the
\* error returned, the store afterwards, and what the call met.
Load(s) ==
    {[cfg |-> DefaultConfig, err |-> TRUE, store |-> s, saw |-> "ioerror"]}
    \cup
    CASE s.state = "absent" ->
           {[cfg |-> DefaultConfig, err |-> FALSE,
             store |-> Save(s, DefaultConfig), saw |-> "absent"],
            [cfg |-> DefaultConfig, err |-> TRUE,
             store |-> s, saw |-> "writeerror"]}
      [] s.state = "corrupt" ->
           {[cfg |-> DefaultConfig, err |-> TRUE, store |-> s, saw |-> "corrupt"]}
      [] s.state = "ok" ->
           {[cfg |-> Stored(s), err |-> FALSE, store |-> s, saw |-> "ok"]}

(***************************************************************************)
(* State.                                                                  *)
(***************************************************************************)
VARIABLES
    mgr,        \* "uninit", "loaded", or "failed" (NewManager returned an error)
    config,     \* Manager.config
    onChange,   \* Manager.onChange, in registration order
    mu,         \* the holder of Manager.mu's write lock, or NoProc
    store,      \* the durable store
    patterns,   \* globalCache.patterns: key -> matcher
    pc,         \* where each process is
    cfg,        \* the cfg of each administrator's Update/Reload in progress
    callbacks,  \* its copy of m.onChange
    notified,   \* the callbacks it has invoked, each <<observer, value>>
    ret,        \* the error result of its call: "none", "ok", "err"
    loadSaw,    \* what NewManager's Load met in the store
    cachedAt,   \* key -> the number of snapshots installed when it was stored
    history,    \* the snapshots installed so far, in the order of the swaps
    startCfg,   \* config when the call started
    startObs,   \* onChange when the call started
    rcfg,       \* the reader's last Get
    rver,       \* its install number
    rprev,      \* the install number of the Get before
    rcat,       \* the category the reader resolves
    rmatch,     \* the matcher the reader resolved last
    ftext,      \* the text of the last SensitiveData call
    fcfg,       \* its cfg
    fout,       \* its results
    fsame,      \* the results of a later call with the same text and cfg
    fagain,     \* the results of a later call on fout's text with the same cfg
    clipboard,  \* the clipboard's text
    lastContent,\* the monitor loop's lastContent
    content,    \* the text it read in this cycle
    filtered,   \* the results of SensitiveData in this cycle
    lastSeen,   \* lastContent as it was when this cycle read the clipboard
    written,    \* the text this cycle handed to clipboard.WriteAll
    logged,     \* the calls of logCallback in this cycle, and the last one's arguments
    slept,      \* the milliseconds of the time.Sleep that ended the cycle before
    sinceCopy,  \* the loop's calls of WriteAll and of logCallback since the user copied
    held,       \* the Config a caller of Get holds, and the snapshot it came from
    cache,      \* a PatternCache: entries, instances compiled, calls of Clear
    getter      \* the goroutines calling cache.Get: position, arguments, results

mgrVars == <<mgr, config, onChange, mu, loadSaw>>
callVars == <<cfg, callbacks, notified, ret>>
startVars == <<startCfg, startObs>>
ghostVars == <<history, startVars>>
cacheVars == <<patterns, cachedAt>>
engineVars == <<ftext, fcfg, fout, fsame, fagain>>
monitorVars ==
    <<clipboard, lastContent, content, filtered, lastSeen, written, logged,
      slept, sinceCopy>>
otherVars == <<held, cache, getter>>
textVars == <<engineVars, monitorVars, otherVars>>
readerVars == <<rcfg, rver, rprev, rcat, rmatch, textVars>>
vars == <<mgrVars, store, cacheVars, pc, callVars, ghostVars, readerVars>>

NoMatch == [cat |-> "none", text |-> "", m |-> Matcher("")]
\* No SensitiveData call yet.
NoResults ==
    [ran |-> FALSE, text |-> << >>, changed |-> FALSE, summary |-> << >>,
     cache |-> << >>]

\* No clipboard.WriteAll call in this cycle.
NoWrite == [ran |-> FALSE, ok |-> FALSE, text |-> << >>]

\* No logCallback call in this cycle.
NoLog ==
    [calls |-> 0, err |-> FALSE, original |-> << >>, filtered |-> << >>,
     detections |-> << >>]

\* No call of the loop since the user copied; the counts stop at 2.
NoCalls == [writes |-> 0, audits |-> 0]
Counted(n) == IF n < 2 THEN n + 1 ELSE 2

\* The goroutines that call Get on one PatternCache, and their calls.
Getters == {"g1", "g2"}
CacheCalls ==
    {[key |-> "test1", patternStr |-> PatternA],
     [key |-> "test2", patternStr |-> PatternB],
     [key |-> "test3", patternStr |-> BadPattern]}
\* The calls made on a cache that is cleared: a key whose pattern text
\* changes, and a key whose pattern text is invalid and then valid.
ClearCalls ==
    {[key |-> "test1", patternStr |-> PatternA],
     [key |-> "test1", patternStr |-> PatternB],
     [key |-> "test3", patternStr |-> BadPattern],
     [key |-> "test3", patternStr |-> PatternA]}
NoInstance == [src |-> "", id |-> 0]
Idle ==
    [pc |-> "idle", key |-> "", patternStr |-> "", pattern |-> NoInstance,
     ret |-> NoInstance, err |-> FALSE, returned |-> FALSE, compiled |-> FALSE,
     wasSettled |-> FALSE, present |-> NoInstance, quiet |-> FALSE,
     after |-> NoInstance, settled |-> FALSE, afterErr |-> FALSE,
     first |-> FALSE]
\* A PatternCache as make() leaves it.
EmptyCache == [patterns |-> << >>, compiled |-> 0, clears |-> 0, cleared |-> FALSE]

\* The caller holds no Config.
NoConfig == [ver |-> 0, cfg |-> DefaultConfig]

Init ==
    /\ mgr = "uninit"
    /\ config = DefaultConfig
    /\ onChange = << >>
    /\ mu = NoProc
    /\ store \in {AbsentStore, CorruptStore, Save(AbsentStore, DefaultConfig)}
    /\ patterns = << >>
    /\ pc = [p \in Procs |-> IF p = Reader THEN "get" ELSE "idle"]
    /\ cfg = [p \in Admins |-> DefaultConfig]
    /\ callbacks = [p \in Admins |-> << >>]
    /\ notified = [p \in Admins |-> << >>]
    /\ ret = [p \in Admins |-> "none"]
    /\ loadSaw = "none"
    /\ history = << >>
    /\ cachedAt = << >>
    /\ startCfg = [p \in Admins |-> DefaultConfig]
    /\ startObs = [p \in Admins |-> << >>]
    /\ rcfg = DefaultConfig
    /\ rver = 0
    /\ rprev = 0
    /\ rcat = "none"
    /\ rmatch = NoMatch
    /\ ftext = << >>
    /\ fcfg = DefaultConfig
    /\ fout = NoResults
    /\ fsame = NoResults
    /\ fagain = NoResults
    /\ clipboard = << >>
    /\ lastContent = << >>
    /\ content = << >>
    /\ filtered = NoResults
    /\ lastSeen = << >>
    /\ written = NoWrite
    /\ logged = NoLog
    /\ slept = 0
    /\ sinceCopy = NoCalls
    /\ held = NoConfig
    /\ cache = EmptyCache
    /\ getter = [g \in Getters |-> Idle]

InCall(p) == pc[p] # "idle"

(***************************************************************************)
(* NewManager: Load, and a Manager around the value loaded when Load       *)
(* returned no error.                                                      *)
(***************************************************************************)
NewManager ==
    /\ mgr = "uninit"
    /\ \E out \in Load(store) :
         /\ store' = out.store
         /\ loadSaw' = out.saw
         /\ IF out.err
            THEN /\ mgr' = "failed"
                 /\ UNCHANGED <<config, history>>
            ELSE /\ mgr' = "loaded"
                 /\ config' = out.cfg
                 /\ history' = <<out.cfg>>
    /\ UNCHANGED <<onChange, mu, cacheVars, pc, callVars, startVars, readerVars>>

\* The start of a call: what the caller can see then.
Begin(p, label) ==
    /\ mgr = "loaded"
    /\ pc[p] = "idle"
    /\ Len(history) + Cardinality({q \in Admins : InCall(q)}) <= MaxOps
    /\ pc' = [pc EXCEPT ![p] = label]

\* What the caller could see when the call started.
RecordStart(p) ==
    /\ startCfg' = [startCfg EXCEPT ![p] = config]
    /\ startObs' = [startObs EXCEPT ![p] = onChange]

\* The caller's locals are dead once the call has returned.
Forget(p) ==
    /\ pc' = [pc EXCEPT ![p] = "idle"]
    /\ cfg' = [cfg EXCEPT ![p] = DefaultConfig]
    /\ callbacks' = [callbacks EXCEPT ![p] = << >>]
    /\ notified' = [notified EXCEPT ![p] = << >>]
    /\ ret' = [ret EXCEPT ![p] = "none"]
    /\ startCfg' = [startCfg EXCEPT ![p] = DefaultConfig]
    /\ startObs' = [startObs EXCEPT ![p] = << >>]

(***************************************************************************)
(* Manager.Update                                                          *)
(***************************************************************************)
UpdateCall(p, c) ==
    /\ Begin(p, "u_save")
    /\ cfg' = [cfg EXCEPT ![p] = c]
    /\ UNCHANGED <<mgrVars, store, cacheVars, callbacks, notified, ret,
                   history, readerVars>>

\* A variant of UpdateSaved: the write is left out and Update goes on.
UpdateSaveSkipped(p) ==
    /\ pc[p] = "u_save"
    /\ pc' = [pc EXCEPT ![p] = "u_lock"]
    /\ UNCHANGED <<mgrVars, store, cacheVars, callVars, ghostVars, readerVars>>

\* db.SaveConfig returned nil.
UpdateSaved(p) ==
    /\ pc[p] = "u_save"
    /\ store' = SaveConfig(store, cfg[p])
    /\ pc' = [pc EXCEPT ![p] = "u_lock"]
    /\ UNCHANGED <<mgrVars, cacheVars, callVars, ghostVars, readerVars>>

\* A variant of UpdateSaveFailed: the snapshot was swapped before the write
\* was attempted, and stays swapped when the write fails.
UpdateSwappedBeforeSave(p) ==
    /\ pc[p] = "u_save"
    /\ mu = NoProc
    /\ config' = cfg[p]
    /\ pc' = [pc EXCEPT ![p] = "u_ret"]
    /\ ret' = [ret EXCEPT ![p] = "err"]
    /\ UNCHANGED <<mgr, onChange, mu, loadSaw, store, cacheVars, cfg, callbacks,
                   notified, ghostVars, readerVars>>

\* db.SaveConfig returned an error: Update returns it.
UpdateSaveFailed(p) ==
    /\ pc[p] = "u_save"
    /\ pc' = [pc EXCEPT ![p] = "u_ret"]
    /\ ret' = [ret EXCEPT ![p] = "err"]
    /\ UNCHANGED <<mgrVars, store, cacheVars, cfg, callbacks, notified,
                   ghostVars, readerVars>>

\* m.mu.Lock() is granted when nobody holds the lock.
CanLock == mu = NoProc
\* A variant of CanRLock: the read lock is granted while a writer holds the lock.
RLockIgnoresWriter == TRUE

\* m.mu.RLock() is granted when no writer holds the lock.
CanRLock == mu = NoProc

\* m.mu.Lock(); m.config = cfg, the struct copy half done.
LockAndCopy(p, from, to) ==
    /\ pc[p] = from
    /\ CanLock
    /\ mu' = p
    /\ config' = HalfCopied(config, cfg[p])
    /\ pc' = [pc EXCEPT ![p] = to]
    /\ UNCHANGED <<mgr, onChange, loadSaw, store, cacheVars, callVars, ghostVars,
                   readerVars>>

\* The struct copy done; callbacks := m.onChange; m.mu.Unlock().
CopyAndUnlock(p, from, to) ==
    /\ pc[p] = from
    /\ mu = p
    /\ config' = cfg[p]
    /\ callbacks' = [callbacks EXCEPT ![p] = onChange]
    /\ mu' = NoProc
    /\ history' = Append(history, cfg[p])
    /\ pc' = [pc EXCEPT ![p] = to]
    /\ UNCHANGED <<mgr, onChange, loadSaw, store, cacheVars, cfg, notified, ret,
                   startVars, readerVars>>

\* A variant of NextCallback: the loop runs from the last callback to the first.
LastCallbackFirst(p) == callbacks[p][Len(callbacks[p]) - Len(notified[p])]

\* The callback the loop "for _, callback := range callbacks" invokes next.
NextCallback(p) == callbacks[p][Len(notified[p]) + 1]

\* One iteration of the loop: callback(cfg).
Invoke(p, at) ==
    /\ pc[p] = at
    /\ Len(notified[p]) < Len(callbacks[p])
    /\ LET o == NextCallback(p) IN
         notified' = [notified EXCEPT ![p] = Append(@, <<o, cfg[p]>>)]
    /\ UNCHANGED <<mgrVars, store, cacheVars, pc, cfg, callbacks, ret, ghostVars,
                   readerVars>>

\* A variant of ReturnNil: the return sits inside the loop, after the first
\* callback.
ReturnNilInLoop(p, from, to) ==
    /\ pc[p] = from
    /\ Len(notified[p]) >= 1 \/ Len(callbacks[p]) = 0
    /\ pc' = [pc EXCEPT ![p] = to]
    /\ ret' = [ret EXCEPT ![p] = "ok"]
    /\ UNCHANGED <<mgrVars, store, cacheVars, cfg, callbacks, notified,
                   ghostVars, readerVars>>

\* The loop is over: return nil.
ReturnNil(p, from, to) ==
    /\ pc[p] = from
    /\ Len(notified[p]) = Len(callbacks[p])
    /\ pc' = [pc EXCEPT ![p] = to]
    /\ ret' = [ret EXCEPT ![p] = "ok"]
    /\ UNCHANGED <<mgrVars, store, cacheVars, cfg, callbacks, notified,
                   ghostVars, readerVars>>

UpdateLock(p) == LockAndCopy(p, "u_lock", "u_copy")
UpdateSwap(p) == CopyAndUnlock(p, "u_copy", "u_notify")
UpdateNotify(p) == Invoke(p, "u_notify")
UpdateReturn(p) == ReturnNil(p, "u_notify", "u_ret")

\* The caller has the result and goes on.
UpdateDone(p) ==
    /\ pc[p] = "u_ret"
    /\ Forget(p)
    /\ UNCHANGED <<mgrVars, store, cacheVars, history,
                   readerVars>>

(***************************************************************************)
(* Manager.Reload                                                          *)
(***************************************************************************)
ReloadCall(p) ==
    /\ Begin(p, "r_load")
    /\ UNCHANGED <<mgrVars, store, cacheVars, callVars, history,
                   readerVars>>

\* A variant of ReloadLoad: the error of Load is not looked at.
ReloadLoadIgnoringError(p) ==
    /\ pc[p] = "r_load"
    /\ \E out \in Load(store) :
         /\ store' = out.store
         /\ pc' = [pc EXCEPT ![p] = "r_lock"]
         /\ cfg' = [cfg EXCEPT ![p] = out.cfg]
    /\ UNCHANGED <<mgrVars, cacheVars, callbacks, notified, ret, ghostVars,
                   readerVars>>

\* cfg, err := Load(); if err != nil { return err }
ReloadLoad(p) ==
    /\ pc[p] = "r_load"
    /\ \E out \in Load(store) :
         /\ store' = out.store
         /\ IF out.err
            THEN /\ pc' = [pc EXCEPT ![p] = "r_ret"]
                 /\ ret' = [ret EXCEPT ![p] = "err"]
                 /\ cfg' = cfg
            ELSE /\ pc' = [pc EXCEPT ![p] = "r_lock"]
                 /\ cfg' = [cfg EXCEPT ![p] = out.cfg]
                 /\ ret' = ret
    /\ UNCHANGED <<mgrVars, cacheVars, callbacks, notified, ghostVars,
                   readerVars>>

ReloadLock(p) == LockAndCopy(p, "r_lock", "r_copy")
ReloadSwap(p) == CopyAndUnlock(p, "r_copy", "r_notify")
ReloadNotify(p) == Invoke(p, "r_notify")
ReloadReturn(p) == ReturnNil(p, "r_notify", "r_ret")

ReloadDone(p) ==
    /\ pc[p] = "r_ret"
    /\ Forget(p)
    /\ UNCHANGED <<mgrVars, store, cacheVars, history,
                   readerVars>>

(***************************************************************************)
(* Server.handleConfig, POST: the body is decoded into a zero Config and   *)
(* the Config is handed to Manager.Update; a body that is no JSON is       *)
(* answered with an error.  A body is written here as the fields it names, *)
(* under the names of the struct's fields.                                 *)
(***************************************************************************)
\* var cfg config.Config: the zero value of every field.
ZeroConfig ==
    [f \in DOMAIN DefaultConfig |->
        CASE f \in {"DetectEmails", "DetectPhones", "DetectCreditCards",
                    "DetectSSNs", "DetectIPV4", "NotifyOnFilter"} -> FALSE
          [] f = "MonitoringInterval" -> 0
          [] f = "StringMatchPatterns" -> << >>
          [] OTHER -> ""]

\* json.NewDecoder(r.Body).Decode(&cfg): the fields the body names are set.
Decode(body) ==
    [f \in DOMAIN DefaultConfig |->
        IF f \in DOMAIN body THEN body[f] ELSE ZeroConfig[f]]

\* The bodies posted: a whole Config, a Config with a negative interval, a
\* body that names one field, and a body that is no JSON.
Bodies ==
    {RuleSetPool[2],
     [RuleSetPool[1] EXCEPT !.MonitoringInterval = -100],
     [DetectEmails |-> TRUE],
     [malformed |-> TRUE]}

handleConfig(p, body) ==
    IF "malformed" \in DOMAIN body
    THEN /\ Begin(p, "u_ret")
         /\ ret' = [ret EXCEPT ![p] = "err"]
         /\ UNCHANGED <<mgrVars, store, cacheVars, cfg, callbacks, notified,
                        history, readerVars>>
    ELSE UpdateCall(p, Decode(body))

(***************************************************************************)
(* Manager.OnChange: a new callback is appended under the write lock.      *)
(***************************************************************************)
Registered == {onChange[i] : i \in DOMAIN onChange}

OnChange(o) ==
    /\ mgr = "loaded"
    /\ CanLock
    /\ o \notin Registered
    /\ Len(onChange) < MaxObservers
    /\ onChange' = Append(onChange, o)
    /\ UNCHANGED <<mgr, config, mu, loadSaw, store, cacheVars, pc, callVars,
                   ghostVars, readerVars>>

\* A variant of Get: the struct is read without the lock, and the read may
\* see any snapshot written so far.
GetUnsynchronized ==
    /\ mgr = "loaded"
    /\ pc[Reader] = "get"
    /\ \E v \in DOMAIN history :
         /\ rcfg' = history[v]
         /\ rver' = v
    /\ rprev' = rver
    /\ pc' = [pc EXCEPT ![Reader] = "resolve"]
    /\ UNCHANGED <<mgrVars, store, cacheVars, callVars, ghostVars, rcat, rmatch,
                   textVars>>

(***************************************************************************)
(* Manager.Get, by the monitor loop: the struct is copied under the read   *)
(* lock.                                                                   *)
(***************************************************************************)
Get ==
    /\ mgr = "loaded"
    /\ pc[Reader] = "get"
    /\ CanRLock
    /\ rcfg' = config
    /\ rprev' = rver
    /\ rver' = Len(history)
    /\ pc' = [pc EXCEPT ![Reader] = "resolve"]
    /\ UNCHANGED <<mgrVars, store, cacheVars, callVars, ghostVars, rcat, rmatch,
                   textVars>>

(***************************************************************************)
(* A caller of Get that keeps the Config it received and writes to it.     *)
(* Get returns m.config by value: the fields are copied, and the copy's    *)
(* StringMatchPatterns is a slice header over the array of the snapshot's  *)
(* slice, for as long as the Manager holds that snapshot.                  *)
(***************************************************************************)
GetConfig ==
    /\ mgr = "loaded"
    /\ CanRLock
    /\ held' = [ver |-> Len(history), cfg |-> config]
    /\ UNCHANGED <<mgrVars, store, cacheVars, pc, callVars, ghostVars, rcfg, rver,
                   rprev, rcat, rmatch, engineVars, monitorVars, cache, getter>>

\* The caller assigns to a field of its Config.
ModifyField ==
    /\ held.ver > 0
    /\ held' = [held EXCEPT !.cfg.DetectEmails = ~@]
    /\ UNCHANGED <<mgrVars, store, cacheVars, pc, callVars, ghostVars, rcfg, rver,
                   rprev, rcat, rmatch, engineVars, monitorVars, cache, getter>>

\* The caller assigns to an entry of its StringMatchPatterns: the write goes
\* to the array, which is the snapshot's array too.
ModifyEntry(i) ==
    /\ held.ver > 0
    /\ i \in DOMAIN held.cfg.StringMatchPatterns
    /\ held' = [held EXCEPT !.cfg.StringMatchPatterns[i].Enabled = ~@]
    /\ IF held.ver = Len(history)
       THEN config' = [config EXCEPT !.StringMatchPatterns[i].Enabled = ~@]
       ELSE config' = config
    /\ UNCHANGED <<mgr, onChange, mu, loadSaw, store, cacheVars, pc, callVars,
                   ghostVars, rcfg, rver, rprev, rcat, rmatch, engineVars,
                   monitorVars, cache, getter>>

(***************************************************************************)
(* The pattern getters (GetEmailPattern, ..., GetIPV4Pattern) over         *)
(* globalCache.  The key of a category's entry is the category's name.     *)
(***************************************************************************)
CacheKey(cat, text) == cat

\* PatternCache.Get, fast path: the entry under the key, when there is one.
CacheHit(key) == key \in DOMAIN patterns

\* cfg == nil
NilConfig == [nil |-> TRUE]

\* A variant of the getter: the default pattern is put into the cache when
\* there is no override.
ResolveStoringDefault(cat) ==
    /\ pc[Reader] = "resolve"
    /\ LET text == IF rcfg = NilConfig THEN "" ELSE CustomPattern(rcfg, cat)
           key == CacheKey(cat, text)
       IN  IF text = ""
           THEN /\ rmatch' = [cat |-> cat, text |-> text, m |-> defaultPattern(cat)]
                /\ patterns' = [k \in DOMAIN patterns \cup {key} |->
                                  IF k = key THEN defaultPattern(cat) ELSE patterns[k]]
                /\ cachedAt' = [k \in DOMAIN patterns \cup {key} |->
                                  IF k = key THEN Len(history) ELSE cachedAt[k]]
                /\ pc' = [pc EXCEPT ![Reader] = "get"]
                /\ rcat' = "none"
           ELSE IF CacheHit(key)
           THEN /\ rmatch' = [cat |-> cat, text |-> text, m |-> patterns[key]]
                /\ pc' = [pc EXCEPT ![Reader] = "get"]
                /\ rcat' = "none"
                /\ UNCHANGED cacheVars
           ELSE /\ rmatch' = rmatch
                /\ pc' = [pc EXCEPT ![Reader] = "compile"]
                /\ rcat' = cat
                /\ UNCHANGED cacheVars
    /\ UNCHANGED <<mgrVars, store, callVars, ghostVars, rcfg, rver, rprev, textVars>>

\* The getter is entered with the reader's cfg: no cfg or no override, a
\* cache hit, or a miss that goes on to compile.
Resolve(cat) ==
    /\ pc[Reader] = "resolve"
    /\ LET text == IF rcfg = NilConfig THEN "" ELSE CustomPattern(rcfg, cat)
           key == CacheKey(cat, text)
       IN  IF text = ""
           THEN /\ rmatch' = [cat |-> cat, text |-> text, m |-> defaultPattern(cat)]
                /\ pc' = [pc EXCEPT ![Reader] = "get"]
                /\ rcat' = "none"
           ELSE IF CacheHit(key)
           THEN /\ rmatch' = [cat |-> cat, text |-> text, m |-> patterns[key]]
                /\ pc' = [pc EXCEPT ![Reader] = "get"]
                /\ rcat' = "none"
           ELSE /\ rmatch' = rmatch
                /\ pc' = [pc EXCEPT ![Reader] = "compile"]
                /\ rcat' = cat
    /\ UNCHANGED <<mgrVars, store, cacheVars, callVars, ghostVars, rcfg, rver,
                   rprev, textVars>>

\* PatternCache.Get, slow path: compile, and store on success; the getter
\* falls back to the default pattern on an error.
CompileAndCache ==
    /\ pc[Reader] = "compile"
    /\ LET text == CustomPattern(rcfg, rcat)
           key == CacheKey(rcat, text)
           c == Compile(text)
       IN  IF c.err
           THEN /\ rmatch' = [cat |-> rcat, text |-> text, m |-> defaultPattern(rcat)]
                /\ patterns' = patterns
                /\ cachedAt' = cachedAt
           ELSE /\ rmatch' = [cat |-> rcat, text |-> text, m |-> c.m]
                /\ patterns' = [k \in DOMAIN patterns \cup {key} |->
                                  IF k = key THEN c.m ELSE patterns[k]]
                /\ cachedAt' = [k \in DOMAIN patterns \cup {key} |->
                                  IF k = key THEN Len(history) ELSE cachedAt[k]]
    /\ pc' = [pc EXCEPT ![Reader] = "get"]
    /\ rcat' = "none"
    /\ UNCHANGED <<mgrVars, store, callVars, ghostVars, rcfg, rver, rprev,
                   textVars>>

(***************************************************************************)
(* PatternCache.Get called by several goroutines on one cache.  A matcher  *)
(* is an instance: regexp.Compile returns a new one at every call.  The    *)
(* lookup under RLock and the store under Lock are one step each.          *)
(***************************************************************************)
Entry(key) ==
    IF key \in DOMAIN cache.patterns THEN cache.patterns[key] ELSE NoInstance

\* The key has an entry that no call in progress will overwrite.
Settled(key) ==
    /\ key \in DOMAIN cache.patterns
    /\ \A g \in Getters : getter[g].pc = "idle" \/ getter[g].key # key

\* A result is handed to the caller of the slow path.
Return(g, pattern, err) ==
    [getter[g] EXCEPT !.pc = "idle", !.ret = pattern, !.err = err,
                      !.returned = TRUE,
                      !.wasSettled =
                          /\ ~err
                          /\ \A h \in Getters \ {g} :
                                \/ getter[h].pc = "idle"
                                \/ getter[h].key # getter[g].key]

\* A variant of the fast path: the lookup finds nothing.
LookupNever(key) == FALSE

\* pattern, ok := pc.patterns[key]
Lookup(key) == key \in DOMAIN cache.patterns

\* Get is entered; on a hit it returns the entry.
PatternCacheGet(g, call) ==
    /\ getter[g].pc = "idle"
    /\ LET start == [Idle EXCEPT !.key = call.key,
                                 !.patternStr = call.patternStr,
                                 !.present = Entry(call.key),
                                 !.quiet = \A h \in Getters : getter[h].pc = "idle",
                                 !.after = IF getter[g].key = call.key
                                           THEN getter[g].ret
                                           ELSE NoInstance,
                                 !.settled = /\ getter[g].key = call.key
                                             /\ getter[g].wasSettled,
                                 !.afterErr = /\ getter[g].key = call.key
                                              /\ getter[g].err,
                                 !.first = cache.cleared]
       IN  IF Lookup(call.key)
           THEN getter' = [getter EXCEPT ![g] =
                              [start EXCEPT !.ret = cache.patterns[call.key],
                                            !.returned = TRUE,
                                            !.wasSettled = Settled(call.key)]]
           ELSE getter' = [getter EXCEPT ![g] = [start EXCEPT !.pc = "compile"]]
    /\ cache' = [cache EXCEPT !.cleared = FALSE]
    /\ UNCHANGED <<mgrVars, store, cacheVars, pc, callVars, ghostVars, rcfg, rver,
                   rprev, rcat, rmatch, engineVars, monitorVars, held>>

\* A variant of the slow path: the result of regexp.Compile is stored before
\* the error is looked at.
PatternCacheCompileStoringNil(g) ==
    /\ getter[g].pc = "compile"
    /\ IF Compile(getter[g].patternStr).err
       THEN /\ getter' = [getter EXCEPT ![g] = Return(g, NoInstance, TRUE)]
            /\ cache' = [cache EXCEPT !.patterns =
                            [k \in DOMAIN cache.patterns \cup {getter[g].key} |->
                               IF k = getter[g].key THEN NoInstance
                               ELSE cache.patterns[k]]]
       ELSE /\ getter' = [getter EXCEPT ![g] =
                             [getter[g] EXCEPT
                                !.pc = "store",
                                !.compiled = TRUE,
                                !.pattern = [src |-> getter[g].patternStr,
                                             id |-> cache.compiled + 1]]]
            /\ cache' = [cache EXCEPT !.compiled = @ + 1]
    /\ UNCHANGED <<mgrVars, store, cacheVars, pc, callVars, ghostVars, rcfg, rver,
                   rprev, rcat, rmatch, engineVars, monitorVars, held>>

\* The slow path: regexp.Compile(patternStr), and the error returned.
PatternCacheCompile(g) ==
    /\ getter[g].pc = "compile"
    /\ IF Compile(getter[g].patternStr).err
       THEN /\ getter' = [getter EXCEPT ![g] = Return(g, NoInstance, TRUE)]
            /\ cache' = cache
       ELSE /\ getter' = [getter EXCEPT ![g] =
                             [getter[g] EXCEPT
                                !.pc = "store",
                                !.compiled = TRUE,
                                !.pattern = [src |-> getter[g].patternStr,
                                             id |-> cache.compiled + 1]]]
            /\ cache' = [cache EXCEPT !.compiled = @ + 1]
    /\ UNCHANGED <<mgrVars, store, cacheVars, pc, callVars, ghostVars, rcfg, rver,
                   rprev, rcat, rmatch, engineVars, monitorVars, held>>

\* pc.patterns[key] = pattern under the lock, and the pattern returned.
PatternCacheStore(g) ==
    /\ getter[g].pc = "store"
    /\ LET key == getter[g].key
           stored == [k \in DOMAIN cache.patterns \cup {key} |->
                        IF k = key THEN getter[g].pattern ELSE cache.patterns[k]]
       IN  /\ getter' = [getter EXCEPT ![g] = Return(g, getter[g].pattern, FALSE)]
           /\ cache' = [cache EXCEPT !.patterns = stored]
    /\ UNCHANGED <<mgrVars, store, cacheVars, pc, callVars, ghostVars, rcfg, rver,
                   rprev, rcat, rmatch, engineVars, monitorVars, held>>

\* A variant of Clear: the map is kept.
PatternCacheClearKeeping ==
    /\ cache.clears < MaxClears
    /\ cache' = [cache EXCEPT !.clears = @ + 1,
                              !.cleared = \A g \in Getters : getter[g].pc = "idle"]
    /\ UNCHANGED <<mgrVars, store, cacheVars, pc, callVars, ghostVars, rcfg, rver,
                   rprev, rcat, rmatch, engineVars, monitorVars, held, getter>>

\* PatternCache.Clear: under the lock, pc.patterns is a new empty map.
\* cleared: the call returned with no Get in progress, and none began since.
PatternCacheClear ==
    /\ cache.clears < MaxClears
    /\ cache' = [cache EXCEPT !.patterns = << >>,
                              !.clears = @ + 1,
                              !.cleared = \A g \in Getters : getter[g].pc = "idle"]
    /\ UNCHANGED <<mgrVars, store, cacheVars, pc, callVars, ghostVars, rcfg, rver,
                   rprev, rcat, rmatch, engineVars, monitorVars, held, getter>>

(***************************************************************************)
(* The redaction engine (internal/filter).  A text is a list of items, in  *)
(* the source the items written one after the other with "; " between      *)
(* them; an item is the unit of text here.  A pattern matches a whole item *)
(* or, for the items of PartMatches, a part of one; no match spans two     *)
(* items.                                                                  *)
(***************************************************************************)
SensitiveTypeEmail == "email"
SensitiveTypePhone == "phone"
SensitiveTypeCreditCard == "credit_card"
SensitiveTypeSSN == "ssn"

\* The items the patterns match.
EmailItems == {"user@test.com", "user@example.com", "security@example.com"}
PhoneItems == {"123-456-7890", "+1-555-123-4567"}
CreditCardItems == {"1234-5678-9012-3456"}
SSNItems == {"123-45-6789"}
IPV4Items == {"192.168.1.1", "0.0.0.0"}

\* An item with an SSN right after "a@b.": the e-mail pattern finds no
\* top-level domain of two letters in it, the SSN pattern finds the SSN after
\* the full stop.
GluedItem == "a@b.123-45-6789"

\* The matches that are a part of their item, for GluedItem and what the
\* default replacements make of it: the pattern's text, the item, the match
\* and what the item holds before and after the match.  With "XXX" after
\* the full stop the e-mail pattern matches up to the hyphen.
PartMatches ==
    {[src |-> DefaultSSNPatternStr, item |-> GluedItem,
      before |-> "a@b.", match |-> "123-45-6789", after |-> ""],
     [src |-> DefaultEmailPatternStr, item |-> "a@b.XXX-XX-XXXX",
      before |-> "", match |-> "a@b.XXX", after |-> "-XX-XXXX"],
     [src |-> DefaultEmailPatternStr, item |-> "security@example.com-XX-XXXX",
      before |-> "", match |-> "security@example.com", after |-> "-XX-XXXX"]}

\* The leftmost match of m in an item it matches.
FindString(m, item) ==
    IF \E pm \in PartMatches : pm.src = m.src /\ pm.item = item
    THEN CHOOSE pm \in PartMatches : pm.src = m.src /\ pm.item = item
    ELSE [src |-> m.src, item |-> item, before |-> "", match |-> item, after |-> ""]

\* Regexp.MatchString on one item, by the text the matcher was compiled from.
MatchString(m, item) ==
    CASE \E pm \in PartMatches : pm.src = m.src /\ pm.item = item -> TRUE
      [] m.src = DefaultEmailPatternStr -> item \in EmailItems
      [] m.src = DefaultPhonePatternStr -> item \in PhoneItems
      [] m.src = DefaultCreditCardPatternStr -> item \in CreditCardItems
      [] m.src = DefaultSSNPatternStr -> item \in SSNItems
      [] m.src = DefaultIPV4PatternStr -> item \in IPV4Items
      [] m.src = PatternA -> item = "user@test.com"
      [] m.src = PatternB -> item = "custom@email"
      [] OTHER -> FALSE

\* The package-level patterns SensitiveData uses; EmailPatternStr and the
\* others are the same texts as DefaultEmailPatternStr and the others.
EmailPattern == Matcher(DefaultEmailPatternStr)
PhonePattern == Matcher(DefaultPhonePatternStr)
CreditCardPattern == Matcher(DefaultCreditCardPatternStr)
SSNPattern == Matcher(DefaultSSNPatternStr)

\* Regexp.FindAllString(text, -1): the matches, from left to right.
FindAllString(m, text) ==
    LET items == SelectSeq(text, LAMBDA item : MatchString(m, item))
    IN  [i \in DOMAIN items |-> FindString(m, items[i]).match]

\* Regexp.ReplaceAllString(text, replacement).
ReplaceAllString(m, text, replacement) ==
    [i \in DOMAIN text |->
        IF MatchString(m, text[i])
        THEN FindString(m, text[i]).before \o replacement \o FindString(m, text[i]).after
        ELSE text[i]]

\* strings.Contains(text, pattern): the empty pattern is in every text.
Contains(text, pattern) ==
    pattern = "" \/ \E i \in DOMAIN text : text[i] = pattern

\* strings.ReplaceAll(text, pattern, replacement): with the empty pattern the
\* replacement is put before every unit of the text and at its end.
ReplaceAll(text, pattern, replacement) ==
    IF pattern = ""
    THEN [i \in 1..(2 * Len(text) + 1) |->
            IF i % 2 = 1 THEN replacement ELSE text[i \div 2]]
    ELSE [i \in DOMAIN text |-> IF text[i] = pattern THEN replacement ELSE text[i]]

ReplacementInfo(dataType, original, replacement) ==
    [Type |-> dataType, Original |-> original, Replacement |-> replacement]

\* The summary entries of a list of matches.
Infos(matches, replacement, dataType) ==
    [i \in DOMAIN matches |-> ReplacementInfo(dataType, matches[i], replacement)]

\* A variant of findAndReplaceRegex: equal matches are recorded once.
findAndReplaceRegexOncePerValue(st, pattern, replacement, dataType) ==
    LET matches == FindAllString(pattern, st.text)
        firsts == SelectSeq([i \in DOMAIN matches |->
                               IF \E j \in 1..(i - 1) : matches[j] = matches[i]
                               THEN "" ELSE matches[i]],
                            LAMBDA x : x # "")
    IN  [text |-> ReplaceAllString(pattern, st.text, replacement),
         summary |-> st.summary \o Infos(firsts, replacement, dataType)]

\* findAndReplaceRegex on the working text and summary st.
findAndReplaceRegex(st, pattern, replacement, dataType) ==
    [text |-> ReplaceAllString(pattern, st.text, replacement),
     summary |-> st.summary \o
                 Infos(FindAllString(pattern, st.text), replacement, dataType)]

\* A variant of findAndReplaceString: the replacement is not recorded.
findAndReplaceStringUnrecorded(st, pattern, replacement, dataType) ==
    IF Contains(st.text, pattern)
    THEN [text |-> ReplaceAll(st.text, pattern, replacement), summary |-> st.summary]
    ELSE st

\* A variant of findAndReplaceString: one entry for every occurrence.
findAndReplaceStringPerOccurrence(st, pattern, replacement, dataType) ==
    [text |-> ReplaceAll(st.text, pattern, replacement),
     summary |-> st.summary \o
                 Infos(SelectSeq(st.text, LAMBDA item : item = pattern),
                       replacement, dataType)]

\* findAndReplaceString on the working text and summary st.
findAndReplaceString(st, pattern, replacement, dataType) ==
    IF Contains(st.text, pattern)
    THEN [text |-> ReplaceAll(st.text, pattern, replacement),
          summary |-> Append(st.summary,
                             ReplacementInfo(dataType, pattern, replacement))]
    ELSE st

\* A variant of FilterEmails: the toggle is not looked at.
FilterEmailsAlways(st, c) ==
    findAndReplaceRegex(st, EmailPattern, c.EmailReplacement, SensitiveTypeEmail)

\* A variant of FilterEmails: the matcher is the one GetEmailPattern finds
\* for cfg in globalCache at the time of the call.
FilterEmailsThroughCache(st, c) ==
    IF c.DetectEmails
    THEN LET text == c.CustomEmailPattern
             key == CacheKey("email", text)
             m == IF text = "" THEN EmailPattern
                  ELSE IF CacheHit(key) THEN patterns[key]
                  ELSE IF Compile(text).err THEN EmailPattern
                  ELSE Compile(text).m
         IN  findAndReplaceRegex(st, m, c.EmailReplacement, SensitiveTypeEmail)
    ELSE st

\* "Filter emails", ..., "Filter SSNs": the four category steps.
FilterEmails(st, c) ==
    IF c.DetectEmails
    THEN findAndReplaceRegex(st, EmailPattern, c.EmailReplacement, SensitiveTypeEmail)
    ELSE st

FilterPhones(st, c) ==
    IF c.DetectPhones
    THEN findAndReplaceRegex(st, PhonePattern, c.PhoneReplacement, SensitiveTypePhone)
    ELSE st

FilterCreditCards(st, c) ==
    IF c.DetectCreditCards
    THEN findAndReplaceRegex(st, CreditCardPattern, c.CreditCardReplacement,
                             SensitiveTypeCreditCard)
    ELSE st

FilterSSNs(st, c) ==
    IF c.DetectSSNs
    THEN findAndReplaceRegex(st, SSNPattern, c.SSNReplacement, SensitiveTypeSSN)
    ELSE st

\* A variant of FilterStringMatch: Enabled is not looked at.
FilterStringMatchAlways(st, stringPattern) ==
    findAndReplaceString(st, stringPattern.Pattern, stringPattern.Replacement,
                         stringPattern.Name)

\* One round of the loop over cfg.StringMatchPatterns.
FilterStringMatch(st, stringPattern) ==
    IF stringPattern.Enabled
    THEN findAndReplaceString(st, stringPattern.Pattern, stringPattern.Replacement,
                              stringPattern.Name)
    ELSE st

RECURSIVE FilterStringMatches(_, _)
FilterStringMatches(st, stringPatterns) ==
    IF stringPatterns = << >>
    THEN st
    ELSE FilterStringMatches(FilterStringMatch(st, Head(stringPatterns)),
                             Tail(stringPatterns))

\* A variant of SensitiveData: the rules come first, and the phone numbers
\* before the emails.
SensitiveDataOtherOrder(text, c) ==
    LET s0 == [text |-> text, summary |-> << >>]
        s1 == FilterStringMatches(s0, c.StringMatchPatterns)
        s2 == FilterPhones(s1, c)
        s3 == FilterEmails(s2, c)
        s4 == FilterCreditCards(s3, c)
        s5 == FilterSSNs(s4, c)
    IN  [text |-> s5.text, changed |-> s5.text # text, summary |-> s5.summary]

\* SensitiveData(text, cfg): the filtered text, whether it differs from the
\* text given, and the summary.
SensitiveData(text, c) ==
    LET s0 == [text |-> text, summary |-> << >>]
        s1 == FilterEmails(s0, c)
        s2 == FilterPhones(s1, c)
        s3 == FilterCreditCards(s2, c)
        s4 == FilterSSNs(s3, c)
        s5 == FilterStringMatches(s4, c.StringMatchPatterns)
    IN  [text |-> s5.text, changed |-> s5.text # text, summary |-> s5.summary]

(***************************************************************************)
(* The texts and configurations SensitiveData is called with.              *)
(***************************************************************************)
InputItems ==
    {"user@test.com", "user@example.com", "123-456-7890", "Acme Corporation",
     "Secret", "hello"}
MultipleTypesText ==
    <<"user@example.com", "123-456-7890", "1234-5678-9012-3456", "123-45-6789",
      "192.168.1.1">>
DuplicateMatchesText == <<"hello", "user@test.com", "hello", "user@test.com", "hello">>
GluedText == <<GluedItem>>
Texts ==
    UNION {[1..n -> InputItems] : n \in 0..MaxTextLen}
    \cup {MultipleTypesText, DuplicateMatchesText, GluedText}

NoDetection ==
    [DefaultConfig EXCEPT !.DetectEmails = FALSE, !.DetectPhones = FALSE,
                          !.DetectCreditCards = FALSE, !.DetectSSNs = FALSE,
                          !.DetectIPV4 = FALSE]
EmailsOnly ==
    [NoDetection EXCEPT !.DetectEmails = TRUE, !.EmailReplacement = "[EMAIL]"]
AllTypes ==
    [DefaultConfig EXCEPT !.EmailReplacement = "[EMAIL]",
                          !.PhoneReplacement = "[PHONE]",
                          !.CreditCardReplacement = "[CARD]",
                          !.SSNReplacement = "[SSN]",
                          !.IPV4Replacement = "[IP]"]
TestCompanyRule ==
    [Name |-> "company_name", Pattern |-> "Acme Corporation",
     Enabled |-> TRUE, Replacement |-> "[COMPANY]"]
DisabledRule ==
    [Name |-> "disabled_pattern", Pattern |-> "Secret",
     Enabled |-> FALSE, Replacement |-> "[REDACTED]"]
EmptyTextRule ==
    [Name |-> "blank", Pattern |-> "", Enabled |-> TRUE, Replacement |-> "[X]"]
StringMatch ==
    [NoDetection EXCEPT !.StringMatchPatterns = <<TestCompanyRule, DisabledRule>>]
DisabledOnly ==
    [AllTypes EXCEPT !.StringMatchPatterns = <<DisabledRule>>]
EmptyText ==
    [EmailsOnly EXCEPT !.StringMatchPatterns = <<EmptyTextRule>>]
\* A cfg whose email replacement is a phone number and whose rule's text is
\* the phone replacement: every pass finds what the pass before it wrote.
Chained ==
    [DefaultConfig EXCEPT
        !.EmailReplacement = "123-456-7890",
        !.PhoneReplacement = "[PHONE]",
        !.StringMatchPatterns =
            <<[Name |-> "placeholder", Pattern |-> "[PHONE]", Enabled |-> TRUE,
               Replacement |-> "hello"], TestCompanyRule>>]
\* The configurations with an override for the email pattern: one that
\* compiles, one that does not, and another that compiles.
CachedConfigs == {RuleSetPool[1], RuleSetPool[3]}
OverrideConfigs == CachedConfigs \cup {RuleSetPool[2]}
FilterConfigs ==
    {NoDetection, DefaultConfig, EmailsOnly, AllTypes, StringMatch, DisabledOnly,
     EmptyText, Chained} \cup OverrideConfigs

\* The results of a call, with what globalCache held when it was made.
Results(r) ==
    [ran |-> TRUE, text |-> r.text, changed |-> r.changed, summary |-> r.summary,
     cache |-> patterns]

\* An enabled rule of c has the empty text.
HasEmptyText(c) ==
    \E i \in DOMAIN c.StringMatchPatterns :
        c.StringMatchPatterns[i].Enabled /\ c.StringMatchPatterns[i].Pattern = ""

\* The calls made: a configuration with an empty rule text is called on the
\* empty text only, where ReplaceAll's units play no part, and GluedText is
\* redacted with the default configuration, whose replacements PartMatches
\* is about.
EngineInputs ==
    {in \in Texts \X FilterConfigs :
        /\ HasEmptyText(in[2]) => in[1] = << >>
        /\ in[1] = GluedText => in[2] = DefaultConfig}

\* A caller builds a configuration and is about to call a pattern getter.
TakeConfig(c) ==
    /\ pc[Reader] = "get"
    /\ rcfg' = c
    /\ pc' = [pc EXCEPT ![Reader] = "resolve"]
    /\ UNCHANGED <<mgrVars, store, cacheVars, callVars, ghostVars, rver, rprev,
                   rcat, rmatch, textVars>>

\* The first call, SensitiveData(t, c).
Redact ==
    /\ pc[Reader] = "get"
    /\ ~fout.ran
    /\ \E in \in EngineInputs :
         /\ ftext' = in[1]
         /\ fcfg' = in[2]
         /\ fout' = Results(SensitiveData(in[1], in[2]))
    /\ fsame' = NoResults
    /\ fagain' = NoResults
    /\ UNCHANGED <<mgrVars, store, cacheVars, pc, callVars, ghostVars, rcfg, rver,
                   rprev, rcat, rmatch, monitorVars,
                   otherVars>>

\* A later call with the same text and cfg.
RedactSame ==
    /\ pc[Reader] = "get"
    /\ fout.ran
    /\ ~fsame.ran
    /\ fsame' = Results(SensitiveData(ftext, fcfg))
    /\ UNCHANGED <<mgrVars, store, cacheVars, pc, callVars, ghostVars, rcfg, rver,
                   rprev, rcat, rmatch, ftext, fcfg, fout, fagain, monitorVars,
                   otherVars>>

\* A later call on the text the first call returned, with the same cfg.
RedactOutput ==
    /\ pc[Reader] = "get"
    /\ fsame.ran
    /\ ~fagain.ran
    /\ HasEmptyText(fcfg) => fout.text = << >>
    /\ fagain' = Results(SensitiveData(fout.text, fcfg))
    /\ UNCHANGED <<mgrVars, store, cacheVars, pc, callVars, ghostVars, rcfg, rver,
                   rprev, rcat, rmatch, ftext, fcfg, fout, fsame, monitorVars,
                   otherVars>>

(***************************************************************************)
(* The string match passes of SensitiveData over texts written character   *)
(* by character: a text, a pattern and a replacement are lists of          *)
(* characters, and an occurrence of a pattern may begin at any character.  *)
(***************************************************************************)
\* pattern occurs in text at position i.
HasPrefixAt(text, pattern, i) ==
    /\ i + Len(pattern) - 1 <= Len(text)
    /\ \A k \in DOMAIN pattern : text[i + k - 1] = pattern[k]

\* strings.Contains(text, pattern) on characters.
ContainsChars(text, pattern) ==
    \E i \in 1..(Len(text) + 1) : HasPrefixAt(text, pattern, i)

\* A variant of ReplaceAllChars: strings.Replace(text, pattern, replacement, 1).
RECURSIVE ReplaceFirstChars(_, _, _)
ReplaceFirstChars(text, pattern, replacement) ==
    IF pattern = << >> THEN replacement \o text
    ELSE IF text = << >> THEN << >>
    ELSE IF HasPrefixAt(text, pattern, 1)
    THEN replacement \o SubSeq(text, Len(pattern) + 1, Len(text))
    ELSE <<Head(text)>> \o ReplaceFirstChars(Tail(text), pattern, replacement)

\* strings.ReplaceAll(text, pattern, replacement) on characters: the
\* occurrences that do not overlap, from left to right; with the empty
\* pattern the replacement is put before every character and at the end.
RECURSIVE ReplaceAllChars(_, _, _)
ReplaceAllChars(text, pattern, replacement) ==
    IF pattern = << >>
    THEN IF text = << >> THEN replacement
         ELSE replacement \o <<Head(text)>>
                  \o ReplaceAllChars(Tail(text), pattern, replacement)
    ELSE IF text = << >> THEN << >>
    ELSE IF HasPrefixAt(text, pattern, 1)
    THEN replacement \o ReplaceAllChars(SubSeq(text, Len(pattern) + 1, Len(text)),
                                        pattern, replacement)
    ELSE <<Head(text)>> \o ReplaceAllChars(Tail(text), pattern, replacement)

\* findAndReplaceString on characters.
findAndReplaceChars(st, pattern, replacement, dataType) ==
    IF ContainsChars(st.text, pattern)
    THEN [text |-> ReplaceAllChars(st.text, pattern, replacement),
          summary |-> Append(st.summary,
                             ReplacementInfo(dataType, pattern, replacement))]
    ELSE st

\* The loop over cfg.StringMatchPatterns on characters.
RECURSIVE FilterCharMatches(_, _)
FilterCharMatches(st, stringPatterns) ==
    IF stringPatterns = << >>
    THEN st
    ELSE LET rule == Head(stringPatterns)
         IN  FilterCharMatches(
                 IF rule.Enabled
                 THEN findAndReplaceChars(st, rule.Pattern, rule.Replacement,
                                          rule.Name)
                 ELSE st,
                 Tail(stringPatterns))

\* SensitiveData with a cfg whose categories are all off.
SensitiveDataChars(text, c) ==
    LET s5 == FilterCharMatches([text |-> text, summary |-> << >>],
                                c.StringMatchPatterns)
    IN  [text |-> s5.text, changed |-> s5.text # text, summary |-> s5.summary]

\* The texts and the rules of the calls.
CharTexts == UNION {[1..n -> {"a", "b", "x"}] : n \in 0..MaxChars}
CharRules ==
    {[Name |-> "double", Pattern |-> <<"a", "a">>, Enabled |-> TRUE,
      Replacement |-> <<"a">>],
     [Name |-> "cut", Pattern |-> <<"x">>, Enabled |-> TRUE,
      Replacement |-> << >>],
     [Name |-> "pair", Pattern |-> <<"a", "b">>, Enabled |-> TRUE,
      Replacement |-> <<"#">>],
     [Name |-> "single", Pattern |-> <<"b">>, Enabled |-> TRUE,
      Replacement |-> <<"*">>],
     [Name |-> "off", Pattern |-> <<"b">>, Enabled |-> FALSE,
      Replacement |-> <<"a">>],
     [Name |-> "blank", Pattern |-> << >>, Enabled |-> TRUE,
      Replacement |-> <<"#">>]}

\* A call of SensitiveData with string match patterns only.
RedactChars ==
    /\ pc[Reader] = "get"
    /\ ~fout.ran
    /\ \E text \in CharTexts, rules \in UNION {[1..n -> CharRules] : n \in 0..2} :
         LET c == [NoDetection EXCEPT !.StringMatchPatterns = rules]
         IN  /\ ftext' = text
             /\ fcfg' = c
             /\ fout' = Results(SensitiveDataChars(text, c))
    /\ UNCHANGED <<mgrVars, store, cacheVars, pc, callVars, ghostVars, rcfg, rver,
                   rprev, rcat, rmatch, fsame, fagain, monitorVars, otherVars>>

(***************************************************************************)
(* The monitor loop (monitor.ClipboardWithManager).  A cycle is: Get,      *)
(* clipboard.ReadAll, the comparison with lastContent and the call of      *)
(* SensitiveData, clipboard.WriteAll when changed, and the sleep.  content *)
(* and filtered are variables of one iteration.                            *)
(***************************************************************************)
\* What a user copies to the clipboard ("" when nothing is there).
ClipboardTexts ==
    {<<"user@example.com", "hello">>, <<"Acme Corporation">>}

\* The user copies a text.
Copy(t) ==
    /\ clipboard # t
    /\ clipboard' = t
    /\ sinceCopy' = NoCalls
    /\ UNCHANGED <<mgrVars, store, cacheVars, pc, callVars, ghostVars, rcfg, rver,
                   rprev, rcat, rmatch, otherVars, engineVars, lastContent, content,
                   filtered, lastSeen, written, logged, slept>>

\* content, err := clipboard.ReadAll() with err == nil.
ReadAll ==
    /\ pc[Reader] = "resolve"
    /\ content' = clipboard
    /\ lastSeen' = lastContent
    /\ slept' = 0
    /\ pc' = [pc EXCEPT ![Reader] = "compare"]
    /\ UNCHANGED <<mgrVars, store, cacheVars, callVars, ghostVars, rcfg, rver,
                   rprev, rcat, rmatch, otherVars, engineVars, clipboard, lastContent,
                   filtered, written, logged, sinceCopy>>

\* clipboard.ReadAll() returns an error: the loop logs it and goes to sleep
\* for a second before it starts over.
ReadAllFails ==
    /\ pc[Reader] = "resolve"
    /\ pc' = [pc EXCEPT ![Reader] = "retry"]
    /\ slept' = 0
    /\ UNCHANGED <<mgrVars, store, cacheVars, callVars, ghostVars, rcfg, rver,
                   rprev, rcat, rmatch, otherVars, engineVars, clipboard, lastContent,
                   content, filtered, lastSeen, written, logged, sinceCopy>>

\* A variant of the comparison: every text that is not empty is processed.
ContentNotEmpty(new, last) == new # << >>

\* if content != lastContent && content != ""
ContentChanged(new, last) == new # last /\ new # << >>

\* A variant of the test of changed: the clipboard is updated after every
\* call of SensitiveData.
AfterFilterAlways(r) == "log"

\* A variant of the test of changed: the clipboard is never updated.
AfterFilterNever(r) == "sleep"

\* if changed { updateClipboardWithNotification(...) }
AfterFilter(r) == IF r.changed THEN "log" ELSE "sleep"

\* The body of the if: lastContent is set and SensitiveData is called with
\* the snapshot of this cycle; changed decides whether the clipboard is
\* updated.
Process ==
    /\ pc[Reader] = "compare"
    /\ IF ContentChanged(content, lastContent)
       THEN LET r == SensitiveData(content, rcfg)
            IN  /\ lastContent' = content
                /\ filtered' = Results(r)
                /\ pc' = [pc EXCEPT ![Reader] = AfterFilter(r)]
       ELSE /\ pc' = [pc EXCEPT ![Reader] = "sleep"]
            /\ UNCHANGED <<lastContent, filtered>>
    /\ UNCHANGED <<mgrVars, store, cacheVars, callVars, ghostVars, rcfg, rver,
                   rprev, rcat, rmatch, otherVars, engineVars, clipboard, content,
                   lastSeen, written, logged, slept, sinceCopy>>

\* updateClipboardWithNotification: logCallback(originalText, filteredText,
\* summary.Replacements), which is Server.AddLog: it hands the texts and the
\* Type of every entry to db.AddLog, whose error is only logged.
AddLog ==
    /\ pc[Reader] = "log"
    /\ \E err \in BOOLEAN :
         logged' = [calls |-> logged.calls + 1, err |-> err,
                    original |-> content, filtered |-> filtered.text,
                    detections |-> [i \in DOMAIN filtered.summary |->
                                       filtered.summary[i].Type]]
    /\ sinceCopy' = [sinceCopy EXCEPT !.audits = Counted(@)]
    /\ pc' = [pc EXCEPT ![Reader] = "write"]
    /\ UNCHANGED <<mgrVars, store, cacheVars, callVars, ghostVars, rcfg, rver,
                   rprev, rcat, rmatch, otherVars, engineVars, clipboard, lastContent,
                   content, filtered, lastSeen, written, slept>>

\* updateClipboardWithNotification: clipboard.WriteAll(filteredText) sets
\* the clipboard.
WriteAll ==
    /\ pc[Reader] = "write"
    /\ clipboard' = filtered.text
    /\ written' = [ran |-> TRUE, ok |-> TRUE, text |-> clipboard']
    /\ sinceCopy' = [sinceCopy EXCEPT !.writes = Counted(@)]
    /\ pc' = [pc EXCEPT ![Reader] = "sleep"]
    /\ UNCHANGED <<mgrVars, store, cacheVars, callVars, ghostVars, rcfg, rver,
                   rprev, rcat, rmatch, otherVars, engineVars, lastContent, content,
                   filtered, lastSeen, logged, slept>>

\* A variant of the failed write: the error ends the loop.
WriteAllFatal ==
    /\ pc[Reader] = "write"
    /\ written' = [ran |-> TRUE, ok |-> FALSE, text |-> filtered.text]
    /\ sinceCopy' = [sinceCopy EXCEPT !.writes = Counted(@)]
    /\ pc' = [pc EXCEPT ![Reader] = "exit"]
    /\ UNCHANGED <<mgrVars, store, cacheVars, callVars, ghostVars, rcfg, rver,
                   rprev, rcat, rmatch, otherVars, engineVars, clipboard, lastContent,
                   content, filtered, lastSeen, logged, slept>>

\* clipboard.WriteAll returns an error, which is logged: the clipboard keeps
\* its text.
WriteAllFails ==
    /\ pc[Reader] = "write"
    /\ written' = [ran |-> TRUE, ok |-> FALSE, text |-> filtered.text]
    /\ sinceCopy' = [sinceCopy EXCEPT !.writes = Counted(@)]
    /\ pc' = [pc EXCEPT ![Reader] = "sleep"]
    /\ UNCHANGED <<mgrVars, store, cacheVars, callVars, ghostVars, rcfg, rver,
                   rprev, rcat, rmatch, otherVars, engineVars, clipboard, lastContent,
                   content, filtered, lastSeen, logged, slept>>

\* A variant of the sleep: the interval is read from the Manager again.
SleepOfCurrentConfig ==
    /\ pc[Reader] \in {"sleep", "retry"}
    /\ slept' = IF pc[Reader] = "retry" THEN 1000 ELSE config.MonitoringInterval
    /\ content' = << >>
    /\ filtered' = NoResults
    /\ lastSeen' = << >>
    /\ written' = NoWrite
    /\ logged' = NoLog
    /\ pc' = [pc EXCEPT ![Reader] = "get"]
    /\ UNCHANGED <<mgrVars, store, cacheVars, callVars, ghostVars, rcfg, rver,
                   rprev, rcat, rmatch, otherVars, engineVars, clipboard, lastContent,
                   sinceCopy>>

\* time.Sleep (of cfg.MonitoringInterval, or of a second after a read
\* error), and the next iteration begins.
Sleep ==
    /\ pc[Reader] \in {"sleep", "retry"}
    /\ slept' = IF pc[Reader] = "retry" THEN 1000 ELSE rcfg.MonitoringInterval
    /\ content' = << >>
    /\ filtered' = NoResults
    /\ lastSeen' = << >>
    /\ written' = NoWrite
    /\ logged' = NoLog
    /\ pc' = [pc EXCEPT ![Reader] = "get"]
    /\ UNCHANGED <<mgrVars, store, cacheVars, callVars, ghostVars, rcfg, rver,
                   rprev, rcat, rmatch, otherVars, engineVars, clipboard, lastContent,
                   sinceCopy>>

(***************************************************************************)
(* The environment: the store is deleted or damaged from outside.          *)
(***************************************************************************)
StoreLost ==
    /\ mgr = "loaded"
    /\ store.state = "ok"
    /\ store' \in {AbsentStore, CorruptStore}
    /\ UNCHANGED <<mgrVars, cacheVars, pc, callVars, ghostVars, readerVars>>

\* The reader leaves the getter at once: it only reads the snapshot.
SkipResolve ==
    /\ pc[Reader] = "resolve"
    /\ pc' = [pc EXCEPT ![Reader] = "get"]
    /\ UNCHANGED <<mgrVars, store, cacheVars, callVars, ghostVars, readerVars>>

\* A caller enters Update or Reload.
AdminCall(p) ==
    \/ \E c \in SubmittedRuleSets : UpdateCall(p, c)
    \/ ReloadCall(p)

\* The steps of a call in progress.
AdminStep(p) ==
    \/ UpdateSaved(p)
    \/ UpdateSaveFailed(p)
    \/ UpdateLock(p)
    \/ UpdateSwap(p)
    \/ UpdateNotify(p)
    \/ UpdateReturn(p)
    \/ UpdateDone(p)
    \/ ReloadLoad(p)
    \/ ReloadLock(p)
    \/ ReloadSwap(p)
    \/ ReloadNotify(p)
    \/ ReloadReturn(p)
    \/ ReloadDone(p)

\* The steps of an Update in progress.
UpdateStep(p) ==
    \/ UpdateSaved(p)
    \/ UpdateSaveFailed(p)
    \/ UpdateLock(p)
    \/ UpdateSwap(p)
    \/ UpdateNotify(p)
    \/ UpdateReturn(p)
    \/ UpdateDone(p)

\* The steps of an Update in a program that registers no callback with its
\* Manager (main.go registers none): the loop over callbacks has no turn.
UpdateStepNoCallback(p) ==
    \/ UpdateSaved(p)
    \/ UpdateSaveFailed(p)
    \/ UpdateLock(p)
    \/ UpdateSwap(p)
    \/ UpdateReturn(p)
    \/ UpdateDone(p)

\* One caller of Update/Reload at a time, observers registered at any
\* moment, and a store that can be lost.
Next ==
    \/ NewManager
    \/ AdminCall("a1") /\ RecordStart("a1")
    \/ AdminStep("a1")
    \/ \E o \in Observers : OnChange(o)
    \/ StoreLost

Spec == Init /\ [][Next]_vars

\* Concurrent callers of Update/Reload and the reader's Get.
ConcNext ==
    \/ NewManager
    \/ \E p \in Admins : AdminCall(p) /\ UNCHANGED startVars
    \/ \E p \in Admins : AdminStep(p)
    \/ OnChange("o1")
    \/ Get
    \/ SkipResolve

ConcSpec == Init /\ [][ConcNext]_vars

\* One administrator, and the monitor loop reading the snapshot and resolving
\* the patterns of its categories through globalCache.
CacheNext ==
    \/ NewManager
    \/ AdminCall("a1") /\ UNCHANGED startVars
    \/ AdminStep("a1")
    \/ OnChange("o1")
    \/ Get
    \/ \E cat \in ResolvedCategories : Resolve(cat)
    \/ CompileAndCache

CacheSpec == Init /\ [][CacheNext]_vars

\* The redaction engine and the pattern getters called directly, one call at
\* a time, as the tests of the two packages call them.
FilterInit == Init /\ store = AbsentStore

FilterNext ==
    \/ \E c \in CachedConfigs : TakeConfig(c)
    \/ \E cat \in ResolvedCategories : Resolve(cat)
    \/ CompileAndCache
    \/ Redact
    \/ RedactSame
    \/ RedactOutput

FilterSpec == FilterInit /\ [][FilterNext]_vars

\* The getters called with and without a cfg and an override, and a call of
\* SensitiveData.
DefaultNext ==
    \/ \E c \in CachedConfigs \cup {DefaultConfig, NilConfig} : TakeConfig(c)
    \/ \E cat \in ResolvedCategories : Resolve(cat)
    \/ CompileAndCache
    \/ Redact

DefaultSpec == FilterInit /\ [][DefaultNext]_vars

\* The monitor loop over the clipboard, a user who copies texts, and one
\* administrator who updates the configuration.  The program registers no
\* callback with its Manager.
MonitorInit == Init /\ store = Save(AbsentStore, DefaultConfig)

MonitorNext ==
    \/ NewManager
    \/ \E c \in SubmittedRuleSets : UpdateCall("a1", c) /\ UNCHANGED startVars
    \/ UpdateStepNoCallback("a1")
    \/ Get
    \/ ReadAll
    \/ ReadAllFails
    \/ Process
    \/ AddLog
    \/ WriteAll
    \/ WriteAllFails
    \/ Sleep
    \/ \E t \in ClipboardTexts : Copy(t)

MonitorSpec == MonitorInit /\ [][MonitorNext]_vars

\* One caller of Update, the reader's Get, and a caller that writes to the
\* Config a Get returned to it.
AliasNext ==
    \/ NewManager
    \/ \E c \in SubmittedRuleSets : UpdateCall("a1", c) /\ UNCHANGED startVars
    \/ UpdateStep("a1")
    \/ OnChange("o1")
    \/ Get
    \/ SkipResolve
    \/ GetConfig
    \/ ModifyField
    \/ ModifyEntry(1)

AliasSpec == Init /\ [][AliasNext]_vars

\* Goroutines calling Get on one PatternCache, with no Clear.
GetNext ==
    \/ \E g \in Getters, call \in CacheCalls : PatternCacheGet(g, call)
    \/ \E g \in Getters : PatternCacheCompile(g)
    \/ \E g \in Getters : PatternCacheStore(g)

GetSpec == FilterInit /\ [][GetNext]_vars

\* Goroutines calling Get on one PatternCache that is cleared, as on a
\* reload of the configuration, at any moment of the Gets: one goroutine
\* makes every call, the other one call.
ClearNext ==
    \/ \E call \in ClearCalls : PatternCacheGet("g1", call)
    \/ PatternCacheGet("g2", [key |-> "test1", patternStr |-> PatternA])
    \/ \E g \in Getters : PatternCacheCompile(g)
    \/ \E g \in Getters : PatternCacheStore(g)
    \/ PatternCacheClear

ClearSpec == FilterInit /\ [][ClearNext]_vars

\* The administrative surface posting configurations while the loop polls
\* a clipboard nobody copies to.
WebNext ==
    \/ NewManager
    \/ \E body \in Bodies : handleConfig("a1", body) /\ UNCHANGED startVars
    \/ UpdateStepNoCallback("a1")
    \/ Get
    \/ ReadAll
    \/ Process
    \/ Sleep

WebSpec == MonitorInit /\ [][WebNext]_vars

\* SensitiveData called with string match patterns, on texts written
\* character by character.
RuleSpec == FilterInit /\ [][RedactChars]_vars

\* The steps of the loop.
MonitorLoop ==
    \/ Get
    \/ ReadAll
    \/ ReadAllFails
    \/ Process
    \/ AddLog
    \/ WriteAll
    \/ WriteAllFails
    \/ Sleep

\* The steps of the loop over a clipboard whose reads succeed.
ReadingLoop ==
    \/ Get
    \/ ReadAll
    \/ Process
    \/ AddLog
    \/ WriteAll
    \/ WriteAllFails
    \/ Sleep

\* The loop, a user who copies a company name, and an administrator who
\* installs the configuration with the pattern for it.  The goroutines of
\* the loop and of the Update are scheduled again and again.
EnableNext ==
    \/ NewManager
    \/ UpdateCall("a1", RuleSetPool[2]) /\ UNCHANGED startVars
    \/ UpdateStepNoCallback("a1")
    \/ ReadingLoop
    \/ Copy(<<"Acme Corporation">>)

EnableSpec ==
    /\ MonitorInit
    /\ [][EnableNext]_vars
    /\ WF_vars(ReadingLoop)
    /\ WF_vars(UpdateStepNoCallback("a1"))

\* The loop alone with the user: its goroutine is scheduled again and again,
\* and nobody holds the Manager's lock against its Get.
LoopNext ==
    \/ NewManager
    \/ MonitorLoop
    \/ \E t \in ClipboardTexts \cup {GluedText} : Copy(t)

LoopSpec == MonitorInit /\ [][LoopNext]_vars /\ WF_vars(MonitorLoop)

(***************************************************************************)
(* Properties of the configuration manager.                                *)
(***************************************************************************)
IsPrefix(a, b) == Len(a) <= Len(b) /\ \A i \in DOMAIN a : a[i] = b[i]
Invocations(p, o) == {j \in DOMAIN notified[p] : notified[p][j][1] = o}
ReturnedOk(p, at) == pc[p] = at /\ ret[p] = "ok"
ReturnedErr(p, at) == pc[p] = at /\ ret[p] = "err"
StoreHolds(c) == store.state = "ok" => store.row = ConfigModel(c)

\* C1: when Update(c) returns nil with no other Update or Reload running,
\* the snapshot Get returns is c, and every observer registered before the
\* call has been invoked exactly once, with c.
UpdateInstallsAndNotifiesOnce ==
    \A p \in Admins :
        ReturnedOk(p, "u_ret") =>
            /\ config = cfg[p]
            /\ \A i \in DOMAIN startObs[p] :
                 /\ Cardinality(Invocations(p, startObs[p][i])) = 1
                 /\ \A j \in Invocations(p, startObs[p][i]) :
                      notified[p][j][2] = cfg[p]

UpdateReturnedWitness ==
    \E p \in Admins :
        /\ ReturnedOk(p, "u_ret")
        /\ Len(startObs[p]) = 2
        /\ cfg[p] # startCfg[p]

\* C2: when the durable write of Update fails, Update returns an error,
\* the snapshot is the one of before the call, and no observer is invoked.
FailedUpdateChangesNothing ==
    \A p \in Admins :
        /\ ReturnedErr(p, "u_ret") =>
             /\ config = startCfg[p]
             /\ notified[p] = << >>
        /\ pc[p] = "u_ret" => ret[p] \in {"ok", "err"}
        /\ ReturnedOk(p, "u_ret") => Len(notified[p]) = Len(callbacks[p])

FailedUpdateWitness ==
    \E p \in Admins :
        /\ ReturnedErr(p, "u_ret")
        /\ onChange # << >>
        /\ cfg[p] # config

\* C5: on every Update or Reload that returns nil the observers are invoked
\* in the order of their registration, by the caller itself, and the call
\* returns only after the last of them has returned.
ObserversInRegistrationOrder ==
    \A p \in Admins :
        /\ IsPrefix(callbacks[p], onChange)
        /\ Len(notified[p]) <= Len(callbacks[p])
        /\ \A i \in DOMAIN notified[p] : notified[p][i][1] = onChange[i]
        /\ (ReturnedOk(p, "u_ret") \/ ReturnedOk(p, "r_ret")) =>
               Len(notified[p]) = Len(callbacks[p])

ReloadNotifiedInOrderWitness ==
    \E p \in Admins :
        /\ ReturnedOk(p, "r_ret")
        /\ Len(notified[p]) = 2
        /\ notified[p][1][1] = "o2"
        /\ notified[p][2][1] = "o1"

ReloadInstallsWhatItRead ==
    \A p \in Admins :
        /\ ReturnedOk(p, "r_ret") =>
             /\ config = cfg[p]
             /\ store.state = "ok" => Stored(store) = cfg[p]
             /\ IsPrefix(startObs[p], callbacks[p])
             /\ Len(notified[p]) = Len(callbacks[p])
             /\ \A i \in DOMAIN notified[p] :
                  notified[p][i] = <<callbacks[p][i], cfg[p]>>
        /\ ReturnedErr(p, "r_ret") =>
             /\ config = startCfg[p]
             /\ notified[p] = << >>
        /\ pc[p] = "r_ret" => ret[p] \in {"ok", "err"}

ReloadReturnedWitness ==
    \E p \in Admins :
        /\ ReturnedOk(p, "r_ret")
        /\ cfg[p] # startCfg[p]
        /\ notified[p] # << >>
        /\ store.state = "ok"

\* C8: when the store is absent or corrupt at load time, NewManager still
\* returns a Manager, and its snapshot is the default configuration.
ManagerConstructedOnBadStore ==
    loadSaw \in {"absent", "corrupt"} =>
        /\ mgr = "loaded"
        /\ history[1] = DefaultConfig

(***************************************************************************)
(* Properties of Get under concurrent Update and Reload.                   *)
(***************************************************************************)
\* C3: whatever Update and Reload calls run concurrently, the value a Get
\* returns is one of the snapshots that were installed, whole.
GetReturnsWholeSnapshot ==
    rver > 0 => \E v \in DOMAIN history : history[v] = rcfg

GetDuringUpdateWitness ==
    /\ pc[Reader] = "resolve"
    /\ rcfg # DefaultConfig
    /\ \E p \in Admins :
         /\ pc[p] = "u_copy"
         /\ config # rcfg
         /\ config # cfg[p]

\* C4: the snapshots the reader's successive Gets return follow the order
\* of the swaps: a later Get never returns a snapshot installed before the
\* one an earlier Get returned.
GetsFollowInstallOrder == rprev <= rver

LaterSnapshotWitness ==
    /\ rprev = 2
    /\ rver = 3
    /\ \E p \in Admins : InCall(p)

(***************************************************************************)
(* Properties of the pattern cache.                                        *)
(***************************************************************************)
\* C9: the cache is keyed by category and pattern text, so a lookup for a
\* category whose override text differs from the cached one is a miss: the
\* matcher a getter returns for an override that compiles is the matcher
\* of that very text.
LookupReturnsMatcherOfItsText ==
    (rmatch.text # "" /\ ~Compile(rmatch.text).err) =>
        rmatch.m = Matcher(rmatch.text)

\* C10: when a Reload has returned nil, the cache holds no entry that was
\* stored before that Reload installed its snapshot.
ReloadClearsCache ==
    \A p \in Admins :
        ReturnedOk(p, "r_ret") =>
            \A k \in DOMAIN patterns : cachedAt[k] >= Len(history)

(***************************************************************************)
(* Properties of the redaction engine.                                     *)
(***************************************************************************)
RecordsOf(summary, dataType) == SelectSeq(summary, LAMBDA r : r.Type = dataType)
Occurs(item, text) == \E i \in DOMAIN text : text[i] = item
CompiledOverride(c) ==
    c.CustomEmailPattern # "" /\ ~Compile(c.CustomEmailPattern).err

\* C11: whatever the cache holds, a getter called with an override text that
\* does not compile returns the category's default matcher, and SensitiveData
\* with such a cfg returns what it returns with the override left empty.
InvalidOverrideFallsBackToDefault ==
    /\ (rmatch.text # "" /\ Compile(rmatch.text).err) =>
           rmatch.m = defaultPattern(rmatch.cat)
    /\ (fout.ran /\ fcfg.CustomEmailPattern # ""
                 /\ Compile(fcfg.CustomEmailPattern).err) =>
           LET plain == SensitiveData(ftext, [fcfg EXCEPT !.CustomEmailPattern = ""])
           IN  /\ fout.text = plain.text
               /\ fout.changed = plain.changed
               /\ fout.summary = plain.summary

\* C12: with emails enabled and an email override that compiles,
\* SensitiveData records and replaces the items the override matches, and
\* leaves alone the items only the default email pattern matches.
OverrideMatcherIsUsed ==
    (fout.ran /\ fcfg.DetectEmails /\ CompiledOverride(fcfg)) =>
        LET m == Compile(fcfg.CustomEmailPattern).m
        IN  /\ \A i \in DOMAIN fout.summary :
                 fout.summary[i].Type = SensitiveTypeEmail =>
                     MatchString(m, fout.summary[i].Original)
            /\ Len(RecordsOf(fout.summary, SensitiveTypeEmail)) =
                   Len(FindAllString(m, ftext))
            /\ \A i \in DOMAIN ftext :
                 (MatchString(EmailPattern, ftext[i]) /\ ~MatchString(m, ftext[i])) =>
                     fout.text[i] = ftext[i]

\* C13: with the five categories disabled and no string match pattern,
\* SensitiveData returns the text it was given, changed = false and an
\* empty summary.
NoDetectionChangesNothing ==
    (fout.ran /\ ~fcfg.DetectEmails /\ ~fcfg.DetectPhones
              /\ ~fcfg.DetectCreditCards /\ ~fcfg.DetectSSNs /\ ~fcfg.DetectIPV4
              /\ fcfg.StringMatchPatterns = << >>) =>
        /\ fout.text = ftext
        /\ ~fout.changed
        /\ fout.summary = << >>

NoDetectionWitness ==
    /\ fout.ran
    /\ fcfg = NoDetection
    /\ ftext = <<"user@example.com", "123-456-7890">>

\* C14: on the empty text SensitiveData returns the empty text, changed =
\* false and an empty summary, whatever the cfg, rules with an empty text
\* included.
EmptyInputGivesEmptyResults ==
    (fout.ran /\ ftext = << >>) =>
        /\ fout.text = << >>
        /\ ~fout.changed
        /\ fout.summary = << >>

\* C15: a string match pattern with Enabled = false is never applied: the
\* summary has no entry with its name, and the results are those of the cfg
\* without the disabled patterns.
WithoutDisabled(c) ==
    [c EXCEPT !.StringMatchPatterns = SelectSeq(@, LAMBDA r : r.Enabled)]

DisabledRuleNeverApplied ==
    fout.ran =>
        /\ \A i \in DOMAIN fcfg.StringMatchPatterns :
             ~fcfg.StringMatchPatterns[i].Enabled =>
                 /\ RecordsOf(fout.summary, fcfg.StringMatchPatterns[i].Name) = << >>
                 /\ \A j \in DOMAIN fout.text :
                      fout.text[j] # fcfg.StringMatchPatterns[i].Replacement
        /\ LET kept == SensitiveData(ftext, WithoutDisabled(fcfg))
           IN  /\ fout.text = kept.text
               /\ fout.changed = kept.changed
               /\ fout.summary = kept.summary

DisabledRuleWitness ==
    /\ fout.ran
    /\ fcfg = StringMatch
    /\ ftext = <<"Secret", "Acme Corporation">>
    /\ fout.text = <<"Secret", "[COMPANY]">>

\* cfg with the passes after the n-th left out (the categories are passes 1
\* to 5, the k-th string match pattern is pass 5 + k), and the results of
\* SensitiveData on the text of the call with it: Working(n).text is the
\* working text after n passes.
Passes(c, n) ==
    [c EXCEPT !.DetectEmails = @ /\ n >= 1,
              !.DetectPhones = @ /\ n >= 2,
              !.DetectCreditCards = @ /\ n >= 3,
              !.DetectSSNs = @ /\ n >= 4,
              !.DetectIPV4 = @ /\ n >= 5,
              !.StringMatchPatterns = IF n > 5 THEN SubSeq(@, 1, n - 5) ELSE << >>]
Working(n) == SensitiveData(ftext, Passes(fcfg, n))

AllFiveCategoriesProcessed ==
    (fout.ran /\ fcfg.DetectEmails /\ fcfg.DetectPhones /\ fcfg.DetectCreditCards
              /\ fcfg.DetectSSNs /\ fcfg.DetectIPV4 /\ ftext = MultipleTypesText) =>
        /\ \A i \in DOMAIN ftext : ~Occurs(ftext[i], fout.text)
        /\ Len(fout.summary) = 5
        /\ \A i, j \in DOMAIN fout.summary :
             i # j => fout.summary[i].Type # fout.summary[j].Type

EnabledReplacements(c) ==
    (IF c.DetectEmails THEN {c.EmailReplacement} ELSE {})
    \cup (IF c.DetectPhones THEN {c.PhoneReplacement} ELSE {})
    \cup (IF c.DetectCreditCards THEN {c.CreditCardReplacement} ELSE {})
    \cup (IF c.DetectSSNs THEN {c.SSNReplacement} ELSE {})
    \cup (IF c.DetectIPV4 THEN {c.IPV4Replacement} ELSE {})
    \cup {c.StringMatchPatterns[i].Replacement :
            i \in {j \in DOMAIN c.StringMatchPatterns : c.StringMatchPatterns[j].Enabled}}

MatchedByEnabled(c, item) ==
    \/ c.DetectEmails /\ MatchString(defaultPattern("email"), item)
    \/ c.DetectPhones /\ MatchString(defaultPattern("phone"), item)
    \/ c.DetectCreditCards /\ MatchString(defaultPattern("creditCard"), item)
    \/ c.DetectSSNs /\ MatchString(defaultPattern("ssn"), item)
    \/ c.DetectIPV4 /\ MatchString(defaultPattern("ipv4"), item)
    \/ \E i \in DOMAIN c.StringMatchPatterns :
         /\ c.StringMatchPatterns[i].Enabled
         /\ Contains(<<item>>, c.StringMatchPatterns[i].Pattern)

ReplacementsMatchNothing(c) ==
    \A r \in EnabledReplacements(c) : ~MatchedByEnabled(c, r)

RedactingTheOutputChangesNothing ==
    (fagain.ran /\ (fcfg = DefaultConfig \/ ReplacementsMatchNothing(fcfg))) =>
        /\ fagain.text = fout.text
        /\ ~fagain.changed

(***************************************************************************)
(* Properties of the monitor loop.                                         *)
(***************************************************************************)
\* C20: in every cycle of the loop, clipboard.WriteAll is called only when
\* SensitiveData, called on the text read in this cycle with the snapshot of
\* this cycle, returned changed = true, and the text written is the filtered
\* text it returned; a text equal to lastContent is neither passed to
\* SensitiveData nor written.
WritesOnlyChangedFilteredText ==
    /\ written.ran =>
         /\ filtered.ran
         /\ filtered.changed
         /\ filtered.text = SensitiveData(content, rcfg).text
         /\ written.text = filtered.text
    /\ (pc[Reader] \in {"log", "write", "sleep"} /\ content = lastSeen) =>
         /\ ~filtered.ran
         /\ ~written.ran

FilteredTextWrittenWitness ==
    /\ written.ok
    /\ written.text # content
    /\ lastSeen # << >>
    /\ rcfg # DefaultConfig

\* C21: no failure ends the loop: after clipboard.ReadAll returned an
\* error, after logCallback's db.AddLog failed and after clipboard.WriteAll
\* returned an error, the loop comes to the clipboard.ReadAll of a later
\* cycle.
FailureLeadsToNextRead ==
    (\/ pc[Reader] = "retry"
     \/ logged.calls > 0 /\ logged.err
     \/ written.ran /\ ~written.ok) ~> (pc[Reader] = "resolve")

AuditAndWriteFailedWitness ==
    /\ logged.calls > 0
    /\ logged.err
    /\ written.ran
    /\ ~written.ok

\* C22: when clipboard.WriteAll failed and the clipboard still holds the
\* text that was read, a later cycle passes that text to SensitiveData
\* again and comes to the write again (unless the user has copied something
\* else meanwhile).
FailedWriteIsRetried ==
    (written.ran /\ ~written.ok /\ clipboard = content) ~>
        (pc[Reader] \in {"log", "write"} \/ clipboard # lastContent)

\* C23: in every cycle logCallback is called once when SensitiveData
\* returned changed = true, with the text read, the filtered text and the
\* Type of every entry of the summary, and is not called when it returned
\* changed = false.
AuditedOncePerChangedRedaction ==
    /\ logged.calls <= 1
    /\ logged.calls = 1 =>
         /\ filtered.ran
         /\ filtered.changed
         /\ logged.original = content
         /\ logged.filtered = filtered.text
         /\ Len(logged.detections) = Len(filtered.summary)
         /\ \A i \in DOMAIN filtered.summary :
              logged.detections[i] = filtered.summary[i].Type
    /\ (filtered.ran /\ filtered.changed /\ pc[Reader] \in {"write", "sleep"}) =>
         logged.calls = 1
    /\ (filtered.ran /\ ~filtered.changed) => logged.calls = 0

AuditedRuleNameWitness ==
    /\ logged.calls = 1
    /\ pc[Reader] = "sleep"
    /\ logged.detections = <<"company_name">>
    /\ logged.original # logged.filtered

(***************************************************************************)
(* Properties of the values Get hands out.                                 *)
(***************************************************************************)
\* C24: whatever a caller writes to the Config a Get returned to it, the
\* entries of its StringMatchPatterns included, a later Get returns the
\* snapshot as it was installed.
LaterGetUnaffectedByCaller == rver > 0 => rcfg = history[rver]

(***************************************************************************)
(* Properties of PatternCache.Get.                                         *)
(***************************************************************************)
\* C25: with no Clear, once the concurrent Gets of a key have all returned,
\* the cache holds one entry for the key, and every Get of that key that
\* starts afterwards returns the instance of that entry, which stays.
ConcurrentGetsConverge ==
    /\ \A g \in Getters :
         (getter[g].returned /\ ~getter[g].err /\ Settled(getter[g].key)) =>
             Entry(getter[g].key).src = getter[g].patternStr
    /\ \A g \in Getters :
         (getter[g].returned /\ getter[g].quiet /\ getter[g].present.id # 0) =>
             /\ getter[g].ret = getter[g].present
             /\ ~getter[g].compiled
             /\ Entry(getter[g].key) = getter[g].present

GetAfterDuplicatesWitness ==
    /\ cache.compiled = 2
    /\ DOMAIN cache.patterns = {"test1"}
    /\ \E g \in Getters :
         /\ getter[g].returned
         /\ getter[g].quiet
         /\ getter[g].present.id = 2

\* C26 as stated: with no Clear, a Get that a goroutine makes after its
\* successful Get with the same key and pattern text returns the instance
\* that Get returned and compiles nothing, and the entries of different keys are
\* different instances.
GetAfterGetReturnsSameInstance ==
    /\ \A g \in Getters :
         (getter[g].returned /\ getter[g].after.id # 0) =>
             /\ getter[g].ret = getter[g].after
             /\ ~getter[g].compiled
    /\ \A k1, k2 \in DOMAIN cache.patterns :
         k1 # k2 => cache.patterns[k1].id # cache.patterns[k2].id

\* C26, amended: the Get that follows returns the entry it found and
\* compiles nothing; that entry is the instance the completed Get returned
\* when no other Get of the key was between its lookup and its store at
\* the moment the completed Get returned; the entries of different keys are
\* different instances.
GetAfterSettledGetReturnsSameInstance ==
    /\ \A g \in Getters :
         (getter[g].returned /\ getter[g].after.id # 0) =>
             /\ getter[g].ret = getter[g].present
             /\ ~getter[g].compiled
             /\ getter[g].settled => getter[g].ret = getter[g].after
    /\ \A k1, k2 \in DOMAIN cache.patterns :
         k1 # k2 => cache.patterns[k1].id # cache.patterns[k2].id

SameInstanceAgainWitness ==
    /\ DOMAIN cache.patterns = {"test1", "test2"}
    /\ \E g \in Getters :
         /\ getter[g].returned
         /\ getter[g].settled
         /\ getter[g].ret = getter[g].after
         /\ getter[g].ret.id = 2

(***************************************************************************)
(* Properties of the passes of SensitiveData.                              *)
(***************************************************************************)
\* C27: for every enabled string match pattern whose text occurs in the
\* working text of its pass, SensitiveData appends one entry (the pattern's
\* name, its text, its replacement), however often the text occurs, and
\* replaces every occurrence; a pattern whose text does not occur adds no
\* entry and leaves the working text as it is.
RuleRecordedOnceAndReplacedEverywhere ==
    fout.ran =>
        \A k \in DOMAIN fcfg.StringMatchPatterns :
            LET rule == fcfg.StringMatchPatterns[k]
                before == Working(5 + k - 1)
                after == IF k = Len(fcfg.StringMatchPatterns)
                         THEN fout ELSE Working(5 + k)
            IN  IF rule.Enabled /\ (rule.Pattern = "" \/ Occurs(rule.Pattern, before.text))
                THEN /\ Len(after.summary) = Len(before.summary) + 1
                     /\ after.summary[Len(after.summary)] =
                            [Type |-> rule.Name, Original |-> rule.Pattern,
                             Replacement |-> rule.Replacement]
                     /\ SubSeq(after.summary, 1, Len(before.summary)) = before.summary
                     /\ rule.Pattern # "" =>
                            /\ Len(after.text) = Len(before.text)
                            /\ \A i \in DOMAIN before.text :
                                 after.text[i] = IF before.text[i] = rule.Pattern
                                                 THEN rule.Replacement
                                                 ELSE before.text[i]
                ELSE /\ after.text = before.text
                     /\ after.summary = before.summary

RuleTextTwiceWitness ==
    /\ fout.ran
    /\ fcfg = StringMatch
    /\ ftext = <<"Acme Corporation", "Acme Corporation">>
    /\ fout.text = <<"[COMPANY]", "[COMPANY]">>
    /\ Len(fout.summary) = 1

\* C28: the summary is in the order of discovery: the entries of the
\* categories in the order email, phone, credit card, SSN, IPv4, then those
\* of the string match patterns in the order of the list; the entries of a
\* category are the matches, from left to right, in the working text the
\* passes before it produced, not in the text given.
Rank(dataType) ==
    CASE dataType = SensitiveTypeEmail -> 1
      [] dataType = SensitiveTypePhone -> 2
      [] dataType = SensitiveTypeCreditCard -> 3
      [] dataType = SensitiveTypeSSN -> 4
      [] dataType = "ipv4" -> 5
      [] OTHER -> 5 + (CHOOSE k \in DOMAIN fcfg.StringMatchPatterns :
                          fcfg.StringMatchPatterns[k].Name = dataType)

SummaryInDiscoveryOrder ==
    fout.ran =>
        /\ \A i, j \in DOMAIN fout.summary :
             i < j => Rank(fout.summary[i].Type) <= Rank(fout.summary[j].Type)
        /\ \A n \in 1..4 :
             LET type == <<SensitiveTypeEmail, SensitiveTypePhone,
                           SensitiveTypeCreditCard, SensitiveTypeSSN>>[n]
                 pattern == <<EmailPattern, PhonePattern, CreditCardPattern,
                              SSNPattern>>[n]
                 found == FindAllString(pattern, Working(n - 1).text)
                 entries == RecordsOf(fout.summary, type)
             IN  Passes(fcfg, n) # Passes(fcfg, n - 1) =>
                     /\ Len(entries) = Len(found)
                     /\ \A i \in DOMAIN entries : entries[i].Original = found[i]

ChainedPassesWitness ==
    /\ fout.ran
    /\ fcfg = Chained
    /\ ftext = <<"Acme Corporation", "user@example.com">>
    /\ fout.text = <<"[COMPANY]", "hello">>
    /\ Len(fout.summary) = 4

\* C29: changed is true exactly when the filtered text differs from the text
\* given, and a call that returns changed = true returns a summary with an
\* entry.
ChangedIffTextDiffers ==
    /\ fout.ran =>
         /\ fout.changed <=> fout.text # ftext
         /\ fout.changed => fout.summary # << >>
    /\ fsame.ran =>
         /\ fsame.changed <=> fsame.text # ftext
         /\ fsame.changed => fsame.summary # << >>
    /\ fagain.ran =>
         /\ fagain.changed <=> fagain.text # fout.text
         /\ fagain.changed => fagain.summary # << >>

ChangedByRuleWitness ==
    /\ fout.ran
    /\ fout.changed
    /\ fcfg = StringMatch
    /\ Len(fout.summary) = 1
    /\ fsame.ran

(***************************************************************************)
(* Properties of the getters without an override.                          *)
(***************************************************************************)
\* C30: a getter called with no cfg, or with a cfg whose override for the
\* category is empty, returns the category's default pattern and leaves
\* globalCache as it is; a call of SensitiveData leaves globalCache as it
\* is, so no category, disabled ones included, adds or looks up an entry.
NoOverrideLeavesCacheAlone ==
    [][/\ (pc[Reader] = "resolve" /\ pc'[Reader] = "get" /\ rmatch'.text = "") =>
            /\ rmatch'.m = defaultPattern(rmatch'.cat)
            /\ patterns' = patterns
       /\ fout' # fout => patterns' = patterns]_vars

DefaultResolvedBesideEntryWitness ==
    /\ rcfg = NilConfig
    /\ pc[Reader] = "get"
    /\ rmatch.text = ""
    /\ rmatch.m = defaultPattern("email")
    /\ patterns # << >>

(***************************************************************************)
(* Properties of PatternCache.Get and PatternCache.Clear.                  *)
(***************************************************************************)
\* C31: a Get whose pattern text does not compile, on a key without an
\* entry, returns the error and no pattern and leaves the entries of the
\* cache as they are; a following Get of the same key with a text that
\* compiles, finding no entry, compiles it and returns that pattern.
InvalidPatternStoresNothing ==
    [][\A g \in Getters :
          /\ (getter[g].pc = "compile" /\ getter'[g].pc = "idle") =>
                /\ getter'[g].err
                /\ getter'[g].ret = NoInstance
                /\ getter[g].patternStr \notin ValidPatternTexts
                /\ cache'.patterns = cache.patterns
          /\ (getter'[g].returned /\ getter'[g].afterErr
                /\ getter'[g].present = NoInstance
                /\ getter'[g].patternStr \in ValidPatternTexts) =>
                /\ ~getter'[g].err
                /\ getter'[g].compiled
                /\ getter'[g].ret.src = getter'[g].patternStr
                /\ getter'[g].ret.id # 0]_vars

ValidAfterInvalidWitness ==
    \E g \in Getters :
        /\ getter[g].returned
        /\ getter[g].afterErr
        /\ getter[g].key = "test3"
        /\ getter[g].ret.src = PatternA
        /\ Entry("test3") = getter[g].ret

\* C32: when Clear has returned with no Get in progress, the cache has no
\* entry until a Get begins, and the first Get that begins then returns a
\* pattern compiled in that call from the text passed to it (or the error of
\* compiling that text).
ClearEmptiesAndNextGetCompiles ==
    /\ cache.cleared => cache.patterns = << >>
    /\ \A g \in Getters :
         (getter[g].returned /\ getter[g].first) =>
             IF Compile(getter[g].patternStr).err
             THEN getter[g].err /\ getter[g].ret = NoInstance
             ELSE /\ ~getter[g].err
                  /\ getter[g].compiled
                  /\ getter[g].ret.src = getter[g].patternStr
                  /\ getter[g].ret # getter[g].after

ChangedPatternPickedUpWitness ==
    \E g \in Getters :
        /\ getter[g].returned
        /\ getter[g].first
        /\ getter[g].key = "test1"
        /\ getter[g].after.src = PatternA
        /\ getter[g].ret.src = PatternB

(***************************************************************************)
(* Properties of the monitor loop under updates.                           *)
(***************************************************************************)
\* C33: the loop calls Get once, at the start of a cycle, and the Config it
\* got is the one passed to SensitiveData and the one whose
\* MonitoringInterval the cycle sleeps; the Get of a cycle returns the
\* snapshot installed last, so after an Update has returned it is that
\* Update's Config or a later one, never one installed before it.
CycleUsesOneCurrentSnapshot ==
    [][/\ pc[Reader] # "get" => (rcfg' = rcfg /\ rver' = rver)
       /\ (pc[Reader] = "get" /\ pc'[Reader] = "resolve") =>
             /\ rver' = Len(history)
             /\ rver' >= rver
             /\ rcfg' = history[rver']
             /\ ReturnedOk("a1", "u_ret") => rcfg' = cfg["a1"]
       /\ (pc[Reader] = "compare" /\ filtered'.ran) =>
             LET r == SensitiveData(content, rcfg)
             IN  /\ filtered'.text = r.text
                 /\ filtered'.changed = r.changed
                 /\ filtered'.summary = r.summary
       /\ (pc[Reader] = "sleep" /\ pc'[Reader] = "get") =>
             slept' = rcfg.MonitoringInterval]_vars

CycleAfterUpdateWitness ==
    /\ pc[Reader] = "get"
    /\ slept = 250
    /\ rprev = 1
    /\ rver = 2
    /\ lastContent = <<"Acme Corporation">>
    /\ clipboard = <<"[COMPANY NAME]">>

\* C34: the snapshot's MonitoringInterval is positive in every state, and
\* so is every interval the loop sleeps.
IntervalAlwaysPositive ==
    /\ mgr = "loaded" => config.MonitoringInterval > 0
    /\ (pc[Reader] = "get" /\ rver > 0) => slept > 0

(***************************************************************************)
(* Properties of concurrent calls of Update and Reload.                    *)
(***************************************************************************)
\* C35: when two concurrent calls of Update have both returned nil, the
\* configuration row of the store is the row of the snapshot Get returns.
MemoryAgreesWithStore ==
    (\A p \in Admins : ReturnedOk(p, "u_ret")) =>
        store.row = ConfigModel(config)

\* C36: the callbacks are delivered in the order of the swaps: no call of
\* Update or Reload hands its Config to an observer that another call,
\* which swapped its different Config in later, has already notified.
\* (Otherwise the Config the observer received last is not the snapshot.)
NotifiedInSwapOrder ==
    [][\A p \in Admins : \A q \in Admins \ {p} :
          Len(notified'[p]) > Len(notified[p]) =>
              LET o == notified'[p][Len(notified'[p])][1]
              IN  ~ /\ Invocations(q, o) # {}
                    /\ cfg[q] # cfg[p]
                    /\ config = cfg[q]]_vars

(***************************************************************************)
(* Properties of the string match passes on characters.                    *)
(***************************************************************************)
EnabledRules(c) ==
    {c.StringMatchPatterns[i] : i \in {j \in DOMAIN c.StringMatchPatterns :
                                          c.StringMatchPatterns[j].Enabled}}
CharsOf(text) == {text[i] : i \in DOMAIN text}

NewlyEnabled ==
    /\ ReturnedOk("a1", "u_ret")
    /\ Len(history) >= 2
    /\ ~SensitiveData(clipboard, history[Len(history) - 1]).changed
    /\ SensitiveData(clipboard, config).changed

\* clipboard.WriteAll has been called with the filtered company name, or
\* the clipboard's text is no longer the company name.
WrittenBackOrCopied ==
    \/ written.ran /\ written.text = <<"[COMPANY NAME]">>
    \/ clipboard # <<"Acme Corporation">>

OneWriteBackPerCopy ==
    /\ sinceCopy.writes <= 1
    /\ sinceCopy.audits <= 1
    /\ (sinceCopy.writes = 1 /\ ~written.ran /\ filtered.ran) =>
          /\ ~filtered.changed
          /\ filtered.text = content
    /\ (sinceCopy.writes = 1 /\ ~written.ran /\ content = lastSeen) =>
          ~filtered.ran

\* C40: when Reload returns nil and the snapshot at its call was a RuleSet
\* an Update had installed and written, the store still holding that
\* RuleSet's row, the snapshot after the Reload is that RuleSet, its
\* StringMatchPatterns included.
ReloadReturnsWhatUpdateStored ==
    \A p \in Admins :
        (/\ ReturnedOk(p, "r_ret")
         /\ startCfg[p] \in SubmittedRuleSets
         /\ store.state = "ok"
         /\ store.row = ConfigModel(startCfg[p])) =>
            config = startCfg[p]

====
